---- MODULE Spec2Model ----
(***************************************************************************)
(* State-machine model of the realtime Pong server:                        *)
(*   - backend/pong/consumers.py : Tournament, GameManager, PongConsumer   *)
(*   - backend/pong/game.py      : PongGame                                *)
(*                                                                         *)
(* Conventions.                                                            *)
(*   Channel names, nicknames, room ids and tournament ids are positive    *)
(*   integers; 0 stands for Python's None.  Python dicts are functions     *)
(*   whose DOMAIN is the set of keys.  uuid4() is the least identifier     *)
(*   that nothing in the state refers to any more.                         *)
(*   A handler runs atomically up to an explicit asyncio.sleep / time.sleep*)
(*   of the source; what runs after the sleep is a separate action.        *)
(***************************************************************************)
EXTENDS Integers, Sequences, FiniteSets, TLC

\* ------------------------------------------------------------------ bounds
\* Number of client connections (channel names 1..NConns).
NConns == 8
\* Connections that use the matchmaking queue in the lobby specification.
NLobbyConns == 3
\* Room identifiers available to uuid4() at any one time.
MaxRooms == 3
\* Tournament identifiers available to uuid4() at any one time.
MaxTournaments == 2
\* delayed_advance tasks that may be pending for one tournament.
MaxPending == 1
\* remove_player calls explored per behaviour of the Tournament object.
MaxLeaves == 2
\* entrants that leave or disconnect per behaviour of the Tournament Director.
MaxDepartures == 1
\* Connections (and entrants) of the Tournament Director specification.
NDirectorConns == 4

Conns == 1..NConns
Rooms == 1..MaxRooms
\* game rooms the lobby specification opens
MaxLobbyRooms == 1
TIds == 1..MaxTournaments

\* ------------------------------------------------------------ dict helpers
Put(f, k, v) == [x \in (DOMAIN f) \cup {k} |-> IF x = k THEN v ELSE f[x]]
Del(f, k) == [x \in (DOMAIN f) \ {k} |-> f[x]]
Get(f, k) == IF k \in DOMAIN f THEN f[k] ELSE 0
Range(f) == {f[x] : x \in DOMAIN f}
EmptyDict == [x \in {} |-> 0]
Least(S) == CHOOSE x \in S : \A y \in S : x <= y
\* F applied to a value computed once (a local variable of the source)
With(x, F(_)) == F(x)

RECURSIVE Pow2(_)
Pow2(n) == IF n <= 0 THEN 1 ELSE 2 * Pow2(n - 1)

\* math.ceil(math.log2(n)) for n >= 1 (n = 0 raises ValueError in the source)
RECURSIVE CeilLog2(_)
CeilLog2(n) == IF n <= 1 THEN 0 ELSE 1 + CeilLog2((n + 1) \div 2)

\* Indices of seq whose element satisfies Test, in list order
SelectIdx(seq, Test(_)) == {i \in 1..Len(seq) : Test(seq[i])}

\* First index (list order) of a non-empty index set
FirstIdx(S) == IF S = {} THEN 0 ELSE Least(S)

\* Remove the element at index i of a sequence
RemoveAt(seq, i) == [j \in 1..(Len(seq) - 1) |-> IF j < i THEN seq[j] ELSE seq[j + 1]]

\* ============================================================ Tournament
\* Tournament.__init__
NewTournament(creator_channel, size) ==
    [creator_channel |-> creator_channel,
     size |-> size,
     players |-> <<>>,
     started |-> FALSE,
     rounds |-> 3,
     matches |-> <<>>,
     current_match |-> 0,
     winner |-> 0]

\* add_player without the nickname test: any nickname is admitted
add_player_any_nickname(T, channel, nickname) ==
    IF T.started THEN [ok |-> FALSE, t |-> T]
    ELSE IF \E i \in 1..Len(T.players) : T.players[i].channel = channel
    THEN [ok |-> FALSE, t |-> T]
    ELSE IF Len(T.players) >= T.size THEN [ok |-> FALSE, t |-> T]
    ELSE [ok |-> TRUE,
          t |-> [T EXCEPT !.players =
                    Append(@, [channel |-> channel, nickname |-> nickname])]]

\* Tournament.add_player: [ok, t]
add_player(T, channel, nickname) ==
    IF T.started THEN [ok |-> FALSE, t |-> T]
    ELSE IF \E i \in 1..Len(T.players) : T.players[i].nickname = nickname
    THEN [ok |-> FALSE, t |-> T]
    ELSE IF \E i \in 1..Len(T.players) : T.players[i].channel = channel
    THEN [ok |-> FALSE, t |-> T]
    ELSE IF Len(T.players) >= T.size THEN [ok |-> FALSE, t |-> T]
    ELSE [ok |-> TRUE,
          t |-> [T EXCEPT !.players =
                    Append(@, [channel |-> channel, nickname |-> nickname])]]

\* calculate_next_match that keeps the position instead of halving it
calculate_next_match_same_position(current_round, position, matches_in_round) ==
    IF matches_in_round <= 1 THEN <<>>
    ELSE <<current_round + 1, position>>

\* Tournament.calculate_next_match: <<round, position>> or <<>> (None)
calculate_next_match(current_round, position, matches_in_round) ==
    IF matches_in_round <= 1 THEN <<>>
    ELSE <<current_round + 1, position \div 2>>

\* the (round, position) pairs of create_bracket's matches_to_create
RECURSIVE MatchesToCreate(_, _)
MatchesToCreate(rounds, round_num) ==
    IF round_num >= rounds THEN <<>>
    ELSE [p \in 1..Pow2(rounds - round_num - 1) |-> <<round_num, p - 1>>]
         \o MatchesToCreate(rounds, round_num + 1)

\* number of first-round matches that get players (create_bracket)
FirstRoundMatches(player_count, rounds) ==
    IF player_count \in {1, 2, 4, 8}
    THEN player_count \div 2
    ELSE (player_count - (Pow2(rounds) - player_count)) \div 2

\* one bracket node of create_bracket's main loop
BracketNode(players, rounds, rp) ==
    LET round_num == rp[1]
        position == rp[2]
        frm == FirstRoundMatches(Len(players), rounds)
        p1 == position * 2 + 1
        p2 == position * 2 + 2
    IN IF round_num = 0 /\ position < frm
       THEN IF p1 <= Len(players) /\ p2 <= Len(players)
            THEN [round |-> round_num, position |-> position,
                  player1 |-> players[p1].nickname,
                  player2 |-> players[p2].nickname,
                  player1_channel |-> players[p1].channel,
                  player2_channel |-> players[p2].channel,
                  winner |-> 0,
                  next_match |-> calculate_next_match(round_num, position, frm)]
            ELSE [round |-> round_num, position |-> position,
                  player1 |-> -1, player2 |-> -1,
                  player1_channel |-> 0, player2_channel |-> 0,
                  winner |-> 0,
                  next_match |-> calculate_next_match(round_num, position, frm)]
       ELSE [round |-> round_num, position |-> position,
             player1 |-> 0, player2 |-> 0,
             player1_channel |-> 0, player2_channel |-> 0,
             winner |-> 0,
             next_match |->
                IF round_num < rounds - 1
                THEN calculate_next_match(round_num, position,
                                          Pow2(rounds - round_num - 1))
                ELSE <<>>]

\* index of the node at (round, position), 0 if there is none
FindMatch(matches, round, position) ==
    FirstIdx({i \in 1..Len(matches) :
                 matches[i].round = round /\ matches[i].position = position})

\* create_bracket's bye loop, from the i-th bye player on (i is 0-based)
RECURSIVE PlaceByes(_, _, _)
PlaceByes(matches, bye_players, i) ==
    IF i >= Len(bye_players) THEN matches
    ELSE LET player == bye_players[i + 1]
             k == FindMatch(matches, 1, i \div 2)
         IN IF k = 0 THEN PlaceByes(matches, bye_players, i + 1)
            ELSE IF matches[k].player1 = 0
            THEN PlaceByes([matches EXCEPT ![k].player1 = player.nickname,
                                           ![k].player1_channel = player.channel],
                           bye_players, i + 1)
            ELSE PlaceByes([matches EXCEPT ![k].player2 = player.nickname,
                                           ![k].player2_channel = player.channel],
                           bye_players, i + 1)

\* Tournament.create_bracket: the list of bracket nodes
create_bracket(players, rounds) ==
    LET todo == MatchesToCreate(rounds, 0)
        nodes == [i \in 1..Len(todo) |-> BracketNode(players, rounds, todo[i])]
        frm == FirstRoundMatches(Len(players), rounds)
    IN IF Len(players) \in {1, 2, 4, 8} THEN nodes
       ELSE PlaceByes(nodes,
                      SubSeq(players, frm * 2 + 1, Len(players)), 0)

\* the readiness test shared by find_next_match, advance_tournament, ready_for_match
IsReady(m) ==
    /\ m.player1 # 0 /\ m.player2 # 0
    /\ m.player1_channel # 0 /\ m.player2_channel # 0
    /\ m.winner = 0

\* find_next_match that prefers the highest round
find_next_match_latest(T) ==
    LET ready == SelectIdx(T.matches, IsReady)
        high == {i \in ready : \A j \in ready : T.matches[i].round >= T.matches[j].round}
    IN FirstIdx(high)

\* Tournament.find_next_match: index of the first ready node of the lowest round
find_next_match(T) ==
    LET ready == SelectIdx(T.matches, IsReady)
        low == {i \in ready : \A j \in ready : T.matches[i].round <= T.matches[j].round}
    IN FirstIdx(low)

\* Tournament.advance_tournament: [t, ret, raised]
\* raised: math.log2(0) raises ValueError when the entrant list is empty
advance_tournament(T) ==
    IF T.current_match # 0 THEN [t |-> T, ret |-> FALSE, raised |-> FALSE]
    ELSE With(find_next_match(T), LAMBDA found :
         IF found # 0
         THEN [t |-> [T EXCEPT !.current_match = found],
               ret |-> TRUE, raised |-> FALSE]
         ELSE IF Len(T.players) = 0
         THEN [t |-> T, ret |-> FALSE, raised |-> TRUE]
         ELSE With(CeilLog2(Len(T.players)) - 1, LAMBDA final_round :
              With({i \in 1..Len(T.matches) :
                      T.matches[i].round = final_round /\ IsReady(T.matches[i])},
                   LAMBDA final_matches :
              IF Cardinality(final_matches) = 1
              THEN [t |-> [T EXCEPT !.current_match = FirstIdx(final_matches)],
                    ret |-> TRUE, raised |-> FALSE]
              ELSE With(FirstIdx({i \in 1..Len(T.matches) :
                                    T.matches[i].round = final_round
                                    /\ T.matches[i].winner # 0}),
                        LAMBDA final_match :
                   [t |-> IF final_match # 0
                          THEN [T EXCEPT !.winner = T.matches[final_match].winner]
                          ELSE T,
                    ret |-> FALSE, raised |-> FALSE]))))

\* Tournament.start_tournament with the shuffle's outcome: [t, ret]
start_tournament(T, shuffled_players) ==
    IF T.started THEN [t |-> T, ret |-> FALSE]
    ELSE IF Len(T.players) \notin {4, 6, 8} THEN [t |-> T, ret |-> FALSE]
    ELSE IF Len(T.players) % 2 # 0 THEN [t |-> T, ret |-> FALSE]
    ELSE With(advance_tournament(
                 [T EXCEPT !.matches = create_bracket(shuffled_players,
                                          CeilLog2(Len(shuffled_players))),
                           !.current_match = 0,
                           !.winner = 0,
                           !.started = TRUE]),
              LAMBDA adv : [t |-> adv.t, ret |-> adv.ret])

\* lines 356-372 of record_match_result: the winner enters the next node
Propagate(matches, cur, winner_nickname, winner_channel) ==
    IF matches[cur].next_match = <<>> THEN matches
    ELSE LET k == FindMatch(matches, matches[cur].next_match[1],
                            matches[cur].next_match[2])
         IN IF k = 0 THEN matches
            ELSE IF matches[k].player1 = 0
            THEN [matches EXCEPT ![k].player1 = winner_nickname,
                                 ![k].player1_channel = winner_channel]
            ELSE [matches EXCEPT ![k].player2 = winner_nickname,
                                 ![k].player2_channel = winner_channel]

\* the node with no next_match that has a winner (record_match_result, line 401)
RootWithWinner(T) ==
    FirstIdx({i \in 1..Len(T.matches) :
                T.matches[i].next_match = <<>> /\ T.matches[i].winner # 0})

\* lines 398-403 of record_match_result: the fallback that sets the winner
\* from the node without next_match, given advance_tournament's outcome
AfterAdvance(adv) ==
    IF ~adv.raised /\ ~adv.ret /\ adv.t.winner = 0
    THEN With(RootWithWinner(adv.t), LAMBDA root :
              IF root # 0
              THEN [adv.t EXCEPT !.winner = adv.t.matches[root].winner]
              ELSE adv.t)
    ELSE adv.t

\* Tournament.record_match_result:
\*   [t, ok, raised, scheduled, match, winner, winner_channel, loser,
\*    loser_channel, tournament_complete]
\* ok = FALSE is the early "return False"; scheduled counts the delayed_advance
\* tasks created; raised = the ValueError of advance_tournament escaped.
NoResult(T) ==
    [t |-> T, ok |-> FALSE, raised |-> FALSE, scheduled |-> 0,
     match |-> 0, winner |-> 0, winner_channel |-> 0,
     loser |-> 0, loser_channel |-> 0, tournament_complete |-> FALSE]

record_match_result(T, winner_channel) ==
    IF T.current_match = 0 THEN NoResult(T)
    ELSE With(T.matches[T.current_match], LAMBDA cm :
         IF winner_channel # cm.player1_channel /\ winner_channel # cm.player2_channel
         THEN NoResult(T)
         ELSE With(winner_channel = cm.player1_channel, LAMBDA is_player1 :
              With(IF is_player1 THEN cm.player1 ELSE cm.player2,
                   LAMBDA winner_nickname :
              With(advance_tournament(
                      [T EXCEPT !.matches =
                                   Propagate([T.matches EXCEPT
                                                 ![T.current_match].winner =
                                                     winner_nickname],
                                             T.current_match, winner_nickname,
                                             winner_channel),
                                !.current_match = 0]),
                   LAMBDA adv :
              With(AfterAdvance(adv), LAMBDA T2 :
                   [t |-> T2, ok |-> ~adv.raised, raised |-> adv.raised,
                    scheduled |-> 1,
                    match |-> T.current_match,
                    winner |-> winner_nickname,
                    winner_channel |-> winner_channel,
                    loser |-> IF is_player1 THEN cm.player2 ELSE cm.player1,
                    loser_channel |-> IF is_player1 THEN cm.player2_channel
                                      ELSE cm.player1_channel,
                    tournament_complete |-> T2.winner # 0])))))

\* the body of record_match_result's delayed_advance task: the tournament after it
delayed_advance(T) ==
    With(advance_tournament(T), LAMBDA adv :
    With({i \in 1..Len(T.matches) : T.matches[i].next_match = <<>>},
         LAMBDA finals :
         IF adv.raised THEN T
         ELSE IF ~adv.ret /\ adv.t.winner = 0
                 /\ Cardinality(finals) = 1
                 /\ adv.t.matches[FirstIdx(finals)].player1 # 0
                 /\ adv.t.matches[FirstIdx(finals)].player2 # 0
         THEN [adv.t EXCEPT !.current_match = FirstIdx(finals)]
         ELSE adv.t))

\* Tournament.remove_player: [t, ok, raised, scheduled]
remove_player(T, channel) ==
    With(FirstIdx({i \in 1..Len(T.players) : T.players[i].channel = channel}),
         LAMBDA idx :
    IF idx = 0 THEN [t |-> T, ok |-> FALSE, raised |-> FALSE, scheduled |-> 0]
    ELSE With([T EXCEPT !.players = RemoveAt(@, idx)], LAMBDA T1 :
         IF T1.started /\ T1.current_match # 0
            /\ (T1.matches[T1.current_match].player1_channel = channel
                \/ T1.matches[T1.current_match].player2_channel = channel)
         THEN With(IF T1.matches[T1.current_match].player1_channel = channel
                   THEN T1.matches[T1.current_match].player2_channel
                   ELSE T1.matches[T1.current_match].player1_channel,
                   LAMBDA other_player :
              IF other_player # 0
              THEN With(record_match_result(T1, other_player), LAMBDA res :
                        [t |-> res.t, ok |-> ~res.raised,
                         raised |-> res.raised, scheduled |-> res.scheduled])
              ELSE [t |-> T1, ok |-> TRUE, raised |-> FALSE, scheduled |-> 0])
         ELSE [t |-> T1, ok |-> TRUE, raised |-> FALSE, scheduled |-> 0]))

\* Tournament.get_state: what a tournament_update frame carries
tournament_get_state(tid, T) ==
    [id |-> tid,
     size |-> T.size,
     players |-> [i \in 1..Len(T.players) |-> T.players[i].nickname],
     started |-> T.started,
     current_match |->
        IF T.current_match # 0
        THEN <<T.matches[T.current_match].player1, T.matches[T.current_match].player2>>
        ELSE <<>>,
     matches |-> [i \in 1..Len(T.matches) |->
                    [round |-> T.matches[i].round,
                     position |-> T.matches[i].position,
                     player1 |-> T.matches[i].player1,
                     player2 |-> T.matches[i].player2,
                     winner |-> T.matches[i].winner]],
     winner |-> T.winner]

\* ============================================================== PongGame
\* PongGame.__init__ (the fields the lobby and the Director read)
height == 450
paddle_height == 100
width == 800
ball_radius == 10
paddle_width == 15

\* ball_vx keeps the sign of the horizontal velocity only; __init__ draws it at
\* random and nothing reads it before the first frame, so it stands as 0 (not
\* yet observed) until the first frame moves the ball
NewGame(target_rounds) ==
    [target_rounds |-> target_rounds,
     is_running |-> FALSE,
     left_score |-> 0,
     right_score |-> 0,
     winner |-> "none",
     ball_x |-> width \div 2,
     ball_y |-> height \div 2,
     ball_vx |-> 0,
     left_paddle_y |-> (height - paddle_height) \div 2,
     right_paddle_y |-> (height - paddle_height) \div 2,
     left_player |-> 0,
     right_player |-> 0]

\* PongGame.add_player: [side, g]
game_add_player(g, channel_name, player_side) ==
    IF player_side = "left" \/ (player_side = "none" /\ g.left_player = 0)
    THEN [side |-> "left", g |-> [g EXCEPT !.left_player = channel_name]]
    ELSE IF player_side = "right" \/ (player_side = "none" /\ g.right_player = 0)
    THEN [side |-> "right", g |-> [g EXCEPT !.right_player = channel_name]]
    ELSE [side |-> "none", g |-> g]

\* PongGame.remove_player: [result, g]
game_remove_player(g, channel_name) ==
    IF g.left_player = channel_name
    THEN [result |-> TRUE, g |-> [g EXCEPT !.left_player = 0]]
    ELSE IF g.right_player = channel_name
    THEN [result |-> TRUE, g |-> [g EXCEPT !.right_player = 0]]
    ELSE [result |-> FALSE, g |-> g]

\* max(a, b), min(a, b)
Max(a, b) == IF a >= b THEN a ELSE b
Min(a, b) == IF a <= b THEN a ELSE b

\* PongGame.update_paddle
game_update_paddle(g, channel_name, y_position) ==
    IF channel_name = g.left_player
    THEN [g EXCEPT !.left_paddle_y =
             Max(0, Min(height - paddle_height, y_position))]
    ELSE IF channel_name = g.right_player
    THEN [g EXCEPT !.right_paddle_y =
             Max(0, Min(height - paddle_height, y_position))]
    ELSE g

\* PongGame.start: [ret, g]
game_start(g) ==
    IF g.is_running THEN [ret |-> FALSE, g |-> g]
    ELSE [ret |-> TRUE, g |-> [g EXCEPT !.is_running = TRUE]]

\* PongGame.stop
game_stop(g) == [g EXCEPT !.is_running = FALSE]

\* check_game_over with integer division (target_rounds // 2): the defect the
\* winning threshold excludes
check_game_over_floor(g) ==
    IF g.left_score >= g.target_rounds \div 2
    THEN [g EXCEPT !.winner = "left", !.is_running = FALSE]
    ELSE IF g.right_score >= g.target_rounds \div 2
    THEN [g EXCEPT !.winner = "right", !.is_running = FALSE]
    ELSE g

\* check_game_over that names the side that did not reach the threshold
check_game_over_swapped(g) ==
    IF 2 * g.left_score >= g.target_rounds
    THEN [g EXCEPT !.winner = "right", !.is_running = FALSE]
    ELSE IF 2 * g.right_score >= g.target_rounds
    THEN [g EXCEPT !.winner = "left", !.is_running = FALSE]
    ELSE g

\* PongGame.check_game_over: score >= target_rounds / 2 is 2 * score >= target_rounds
check_game_over(g) ==
    IF 2 * g.left_score >= g.target_rounds
    THEN [g EXCEPT !.winner = "left", !.is_running = FALSE]
    ELSE IF 2 * g.right_score >= g.target_rounds
    THEN [g EXCEPT !.winner = "right", !.is_running = FALSE]
    ELSE g

\* PongGame.update, scoring part: edge is the side of the arena the ball has
\* left after the integration step ("left", "right") or "none"
game_update(g, edge) ==
    IF edge = "left"
    THEN check_game_over([g EXCEPT !.right_score = @ + 1])
    ELSE IF edge = "right"
    THEN check_game_over([g EXCEPT !.left_score = @ + 1])
    ELSE g

\* the sign of a velocity
Sign(v) == IF v < 0 THEN 0 - 1 ELSE IF v > 0 THEN 1 ELSE 0

\* PongGame.reset_ball: the ball goes back to the centre; cos(angle) > 0, so
\* the new horizontal velocity has the sign of direction
reset_ball(g) ==
    [g EXCEPT !.ball_x = width \div 2,
              !.ball_y = height \div 2,
              !.ball_vx = IF g.ball_vx < 0 THEN 1 ELSE 0 - 1]

\* PongGame.update, "Move ball": dx and dy are velocity times delta_factor
move_ball(g, dx, dy) ==
    [g EXCEPT !.ball_x = @ + dx, !.ball_y = @ + dy, !.ball_vx = Sign(dx)]

\* the wall test of update with the clamping left out
bounce_walls_unclamped(g) == g

\* PongGame.update, "Ball collision with top and bottom walls"
bounce_walls(g) ==
    IF g.ball_y - ball_radius < 0 \/ g.ball_y + ball_radius > height
    THEN IF g.ball_y - ball_radius < 0
         THEN [g EXCEPT !.ball_y = ball_radius]
         ELSE [g EXCEPT !.ball_y = height - ball_radius]
    ELSE g

\* the edge the ball is off in update's "Check for scoring"
CrossedEdge(g) ==
    IF g.ball_x - ball_radius < 0 THEN "left"
    ELSE IF g.ball_x + ball_radius > width THEN "right"
    ELSE "none"

\* a scoring branch that counts the point twice
score_twice(g) ==
    IF CrossedEdge(g) = "none" THEN g
    ELSE reset_ball(game_update(game_update(g, CrossedEdge(g)), CrossedEdge(g)))

\* PongGame.update, "Check for scoring": the point, check_game_over, reset_ball
score_and_reset(g) ==
    IF CrossedEdge(g) = "none" THEN g
    ELSE reset_ball(game_update(g, CrossedEdge(g)))

\* PongGame.check_paddle_collisions: the ball is put in front of the paddle it hit
check_paddle_collisions(g) ==
    IF /\ g.ball_x - ball_radius < paddle_width
       /\ g.ball_y > g.left_paddle_y
       /\ g.ball_y < g.left_paddle_y + paddle_height
    THEN [g EXCEPT !.ball_x = paddle_width + ball_radius, !.ball_vx = 1]
    ELSE IF /\ g.ball_x + ball_radius > width - paddle_width
            /\ g.ball_y > g.right_paddle_y
            /\ g.ball_y < g.right_paddle_y + paddle_height
    THEN [g EXCEPT !.ball_x = width - paddle_width - ball_radius,
                   !.ball_vx = 0 - 1]
    ELSE g

\* PongGame.update for a ball that moves by (dx, dy) in this frame
game_tick(g, dx, dy) ==
    check_paddle_collisions(score_and_reset(bounce_walls(move_ball(g, dx, dy))))

\* =========================================================== GameManager
\* GameManager.create_game on the registry
gm_create_game(games, room_id, target_rounds) ==
    IF room_id \in DOMAIN games THEN games
    ELSE Put(games, room_id, NewGame(target_rounds))

\* GameManager.add_player_to_game: [side, games, players]
gm_add_player_to_game(games, players, room_id, channel_name, player_side) ==
    IF room_id \notin DOMAIN games
    THEN [side |-> "none", games |-> games, players |-> players]
    ELSE LET r == game_add_player(games[room_id], channel_name, player_side)
         IN [side |-> r.side,
             games |-> [games EXCEPT ![room_id] = r.g],
             players |-> IF r.side # "none"
                         THEN Put(players, channel_name, room_id)
                         ELSE players]

\* GameManager.remove_player_from_game: [result, games, players]
gm_remove_player_from_game(games, players, channel_name) ==
    LET room_id == Get(players, channel_name)
    IN IF room_id = 0 \/ room_id \notin DOMAIN games
       THEN [result |-> FALSE, games |-> games, players |-> players]
       ELSE LET r == game_remove_player(games[room_id], channel_name)
            IN IF ~r.result
               THEN [result |-> FALSE, games |-> games, players |-> players]
               ELSE [result |-> TRUE,
                     games |-> IF r.g.left_player = 0 /\ r.g.right_player = 0
                               THEN Del(games, room_id)
                               ELSE [games EXCEPT ![room_id] = r.g],
                     players |-> Del(players, channel_name)]

\* GameManager.update_paddle: [ret, games]
gm_update_paddle(games, players, channel_name, y_position) ==
    LET room_id == Get(players, channel_name)
    IN IF room_id = 0 \/ room_id \notin DOMAIN games
       THEN [ret |-> FALSE, games |-> games]
       ELSE [ret |-> TRUE,
             games |-> [games EXCEPT ![room_id] =
                          game_update_paddle(@, channel_name, y_position)]]

\* GameManager.start_game: [ret, games]
gm_start_game(games, room_id) ==
    IF room_id \notin DOMAIN games THEN [ret |-> FALSE, games |-> games]
    ELSE IF games[room_id].left_player # 0 /\ games[room_id].right_player # 0
    THEN LET r == game_start(games[room_id])
         IN [ret |-> r.ret, games |-> [games EXCEPT ![room_id] = r.g]]
    ELSE [ret |-> FALSE, games |-> games]

\* ================================================================= state
VARIABLES
    connected,           \* channels whose websocket is open
    lobby,               \* the channel layer's "lobby" group
    groups,              \* the channel layer's game-room groups: room -> channels
    waiting_players,     \* consumers.waiting_players
    active_games,        \* consumers.active_games: channel -> room
    active_tournaments,  \* consumers.active_tournaments: id -> Tournament
    tournament_players,  \* consumers.tournament_players: channel -> id
    gm_active_games,     \* game_manager.active_games: room -> PongGame
    gm_player_games,     \* game_manager.player_games: channel -> room
    sync_loops,          \* rooms with a live game_sync_loop task
    cleanup_threads,     \* rooms with a delayed_cleanup thread still sleeping
    advance_tasks,       \* tournament id -> number of delayed_advance tasks sleeping
    launching,           \* start_tournament_match coroutines in their 0.5 s sleep
    sent,                \* frames emitted by the last step, in order
    manager_lock,        \* game_manager.lock: the thread that holds it, or <<>>
    game_locks,          \* PongGame.lock of each room: the thread that holds it, or <<>>
    pc                   \* where each thread stands in the method it runs

vars == <<connected, lobby, groups, waiting_players, active_games,
          active_tournaments, tournament_players, gm_active_games,
          gm_player_games, sync_loops, cleanup_threads, advance_tasks,
          launching, sent, manager_lock, game_locks, pc>>

\* The threads that take the locks: the event loop that runs the connection
\* handlers, the game_loop thread of each room, the delayed_cleanup thread of
\* each room.
NHandlerThreads == 1
HandlerThreads == {<<"handler", i>> : i \in 1..NHandlerThreads}
WorkerThread(room) == <<"worker", room>>
CleanupThread(room) == <<"cleanup", room>>
Threads ==
    HandlerThreads \cup {WorkerThread(r) : r \in Rooms}
                   \cup {CleanupThread(r) : r \in Rooms}
NoThread == <<>>

\* a thread outside every `with lock` block
Resting ==
    [at |-> "idle", op |-> "none", room |-> 0, c |-> 0, side |-> "none",
     rounds |-> 0, y |-> 0]

lock_vars == <<manager_lock, game_locks, pc>>

\* no thread has been started, both kinds of lock are free
LockInit ==
    /\ manager_lock = NoThread
    /\ game_locks = [r \in Rooms |-> NoThread]
    /\ pc = [t \in Threads |-> Resting]

\* a frame: `to` is the set of channels it is sent to
Frame(to, type, data) == [to |-> to, type |-> type, data |-> data]

\* uuid4() for a game room: an identifier nothing refers to
RoomsInUse ==
    (DOMAIN gm_active_games) \cup Range(active_games) \cup Range(gm_player_games)
    \cup sync_loops \cup cleanup_threads \cup {l.room : l \in launching}
    \cup {r \in DOMAIN groups : groups[r] # {}}
FreshRoom == IF Rooms \ RoomsInUse = {} THEN 0 ELSE Least(Rooms \ RoomsInUse)

\* uuid4() for a tournament
TournamentsInUse ==
    (DOMAIN active_tournaments) \cup Range(tournament_players)
    \cup {t \in DOMAIN advance_tasks : advance_tasks[t] > 0}
    \cup {l.tournament : l \in launching}
FreshTournament == IF TIds \ TournamentsInUse = {} THEN 0 ELSE Least(TIds \ TournamentsInUse)

\* a consumer handles one event at a time: it is busy while its handler sleeps
Busy(c) == \E l \in launching : l.handler = c

\* channel_layer.group_add / group_discard
GroupOf(g, room) == IF room \in DOMAIN g THEN g[room] ELSE {}
group_add(g, room, channel) == Put(g, room, GroupOf(g, room) \cup {channel})
group_discard(g, room, channel) ==
    IF room \in DOMAIN g THEN [g EXCEPT ![room] = @ \ {channel}] ELSE g
\* the waiting_list payload (connect, get_state, broadcast_waiting_list)
WaitingList(w) ==
    [i \in 1..Len(w) |-> [nickname |-> w[i].nickname, rounds |-> w[i].rounds]]

\* PongConsumer.broadcast_waiting_list: one frame to the lobby group
broadcast_waiting_list(w, lob) == <<Frame(lob, "waiting_list", WaitingList(w))>>

\* PongConsumer.broadcast_tournament_list: one frame to the lobby group
TournamentList(at) ==
    [t \in {x \in DOMAIN at : ~at[x].started \/ at[x].current_match # 0} |->
        [players |-> Len(at[t].players), size |-> at[t].size,
         started |-> at[t].started]]
broadcast_tournament_list(at, lob) ==
    <<Frame(lob, "tournament_list", TournamentList(at))>>

\* the channels of T's entrant list
PlayerChannels(T) == {T.players[i].channel : i \in 1..Len(T.players)}

\* "for player in tournament.players: send tournament_update": the same payload
\* to every entrant, written as one frame addressed to all of them
TournamentUpdates(tid, T) ==
    IF Len(T.players) = 0 THEN <<>>
    ELSE <<Frame(PlayerChannels(T), "tournament_update", tournament_get_state(tid, T))>>

\* "for player in tournament.players: if player is not self: send tournament_left"
TournamentLeftFrames(T, c) ==
    IF PlayerChannels(T) \ {c} = {} THEN <<>>
    ELSE <<Frame(PlayerChannels(T) \ {c}, "tournament_left", "canceled")>>

\* waiting_players without the entries of a channel
WithoutChannel(w, c) == SelectSeq(w, LAMBDA p : p.channel # c)

\* ================================================================ actions
\* PongConsumer.connect
Connect(c) ==
    /\ c \notin connected
    /\ connected' = connected \cup {c}
    /\ lobby' = lobby \cup {c}
    /\ sent' = <<Frame({c}, "waiting_list", WaitingList(waiting_players))>>
               \o broadcast_tournament_list(active_tournaments, lobby')
    /\ UNCHANGED <<groups, waiting_players, active_games, active_tournaments,
                   tournament_players, gm_active_games, gm_player_games,
                   sync_loops, cleanup_threads, advance_tasks, launching>>
    /\ UNCHANGED lock_vars

\* game_manager.create_game, add_player_to_game (left), add_player_to_game
\* (right), as the join handler and start_tournament_match call them in a row:
\* [games, players]
SeatPlayers(room, rounds, left_channel, right_channel) ==
    With(gm_add_player_to_game(gm_create_game(gm_active_games, room, rounds),
                               gm_player_games, room, left_channel, "left"),
         LAMBDA a1 :
         gm_add_player_to_game(a1.games, a1.players, room, right_channel, "right"))

\* start_game frames with the sides exchanged: the defect the tie-break
\* (waiter left, caller right) excludes
SwappedStartGameFrames(room, rounds, left_channel, right_channel) ==
    <<Frame({left_channel}, "start_game",
            [room |-> room, rounds |-> rounds, player_side |-> "right"]),
      Frame({right_channel}, "start_game",
            [room |-> room, rounds |-> rounds, player_side |-> "left"])>>

\* the two start_game frames of the join handler
StartGameFrames(room, rounds, left_channel, right_channel) ==
    <<Frame({left_channel}, "start_game",
            [room |-> room, rounds |-> rounds, player_side |-> "left"]),
      Frame({right_channel}, "start_game",
            [room |-> room, rounds |-> rounds, player_side |-> "right"])>>

\* the two start_game frames of start_tournament_match
TournamentStartGameFrames(room, rounds, left_channel, right_channel) ==
    <<Frame({left_channel}, "start_game",
            [room |-> room, rounds |-> rounds,
             is_tournament |-> TRUE, player_side |-> "left"]),
      Frame({right_channel}, "start_game",
            [room |-> room, rounds |-> rounds,
             is_tournament |-> TRUE, player_side |-> "right"])>>

\* PongConsumer.receive, msg_type == "join", a waiting player has the same rounds
JoinPair(c, rounds, k, game_room) ==
    /\ game_room # 0
    /\ waiting_players' = RemoveAt(waiting_players, k)
    /\ With(SeatPlayers(game_room, rounds, waiting_players[k].channel, c),
            LAMBDA a2 :
            /\ gm_active_games' = gm_start_game(a2.games, game_room).games
            /\ gm_player_games' = a2.players)
    /\ groups' = group_add(group_add(groups, game_room, c),
                           game_room, waiting_players[k].channel)
    /\ active_games' = Put(Put(active_games, c, game_room),
                           waiting_players[k].channel, game_room)
    /\ sync_loops' = sync_loops \cup {game_room}
    /\ sent' = StartGameFrames(game_room, rounds,
                               waiting_players[k].channel, c)
               \o broadcast_waiting_list(waiting_players', lobby)

\* PongConsumer.receive, msg_type == "join", nobody waits with the same rounds
JoinWait(c, nickname, rounds) ==
    /\ waiting_players' = Append(waiting_players,
                                 [channel |-> c, nickname |-> nickname,
                                  rounds |-> rounds])
    /\ sent' = <<Frame({c}, "queue_update", rounds)>>
               \o broadcast_waiting_list(waiting_players', lobby)
    /\ UNCHANGED <<gm_active_games, gm_player_games, groups, active_games,
                   sync_loops>>

\* a join handler that takes the oldest waiting entry whatever its rounds: the
\* defect the bucketed pairing excludes
JoinAnyRounds(c, nickname, rounds) ==
    /\ c \in connected /\ ~Busy(c)
    /\ With(FirstIdx(1..Len(waiting_players)),
            LAMBDA k :
            IF k # 0 THEN JoinPair(c, rounds, k, FreshRoom)
            ELSE JoinWait(c, nickname, rounds))
    /\ UNCHANGED <<connected, lobby, active_tournaments, tournament_players,
                   cleanup_threads, advance_tasks, launching>>
    /\ UNCHANGED lock_vars

\* PongConsumer.receive, msg_type == "join"
Join(c, nickname, rounds) ==
    /\ c \in connected /\ ~Busy(c)
    /\ With(FirstIdx({i \in 1..Len(waiting_players) :
                        waiting_players[i].rounds = rounds}),
            LAMBDA k :
            IF k # 0 THEN JoinPair(c, rounds, k, FreshRoom)
            ELSE JoinWait(c, nickname, rounds))
    /\ UNCHANGED <<connected, lobby, active_tournaments, tournament_players,
                   cleanup_threads, advance_tasks, launching>>
    /\ UNCHANGED lock_vars

\* PongGame.get_state: the scores and the paddles of a snapshot
game_get_state(g) ==
    [left |-> g.left_score, right |-> g.right_score,
     left_paddle_y |-> g.left_paddle_y, right_paddle_y |-> g.right_paddle_y]

\* GameManager.get_game_for_player: the room of the player's game, 0 if none
get_game_for_player(games, players, channel_name) ==
    IF Get(players, channel_name) = 0 THEN 0
    ELSE IF players[channel_name] \in DOMAIN games THEN players[channel_name]
    ELSE 0

\* the frames of get_state: the two lists, then the sender's tournament and
\* the sender's game if it has them
GetStateFrames(c) ==
    <<Frame({c}, "waiting_list", WaitingList(waiting_players))>>
    \o broadcast_tournament_list(active_tournaments, lobby)
    \o (IF Get(tournament_players, c) \in DOMAIN active_tournaments
        THEN <<Frame({c}, "tournament_update",
                     tournament_get_state(tournament_players[c],
                         active_tournaments[tournament_players[c]]))>>
        ELSE <<>>)
    \o (IF get_game_for_player(gm_active_games, gm_player_games, c) # 0
        THEN <<Frame({c}, "game_state_update",
                     game_get_state(gm_active_games[gm_player_games[c]]))>>
        ELSE <<>>)

\* get_state that also takes its sender off the waiting list
GetStateDequeue(c) ==
    /\ c \in connected /\ ~Busy(c)
    /\ sent' = GetStateFrames(c)
    /\ waiting_players' = WithoutChannel(waiting_players, c)
    /\ groups' = IF get_game_for_player(gm_active_games, gm_player_games, c) # 0
                 THEN group_add(groups, gm_player_games[c], c)
                 ELSE groups
    /\ UNCHANGED <<connected, lobby, active_games,
                   active_tournaments, tournament_players, gm_active_games,
                   gm_player_games, sync_loops, cleanup_threads, advance_tasks,
                   launching>>
    /\ UNCHANGED lock_vars

\* PongConsumer.receive, msg_type == "get_state"
GetState(c) ==
    /\ c \in connected /\ ~Busy(c)
    /\ sent' = GetStateFrames(c)
    /\ groups' = IF get_game_for_player(gm_active_games, gm_player_games, c) # 0
                 THEN group_add(groups, gm_player_games[c], c)
                 ELSE groups
    /\ UNCHANGED <<connected, lobby, waiting_players, active_games,
                   active_tournaments, tournament_players, gm_active_games,
                   gm_player_games, sync_loops, cleanup_threads, advance_tasks,
                   launching>>
    /\ UNCHANGED lock_vars

\* PongConsumer.receive, msg_type == "game_update" carrying paddleY
GameUpdate(c, y) ==
    /\ c \in connected /\ ~Busy(c)
    /\ gm_active_games' =
          gm_update_paddle(gm_active_games, gm_player_games, c, y).games
    /\ sent' = <<>>
    /\ UNCHANGED <<connected, lobby, groups, waiting_players, active_games,
                   active_tournaments, tournament_players, gm_player_games,
                   sync_loops, cleanup_threads, advance_tasks, launching>>
    /\ UNCHANGED lock_vars

\* PongConsumer.receive, msg_type == "leave_queue"
LeaveQueue(c) ==
    /\ c \in connected /\ ~Busy(c)
    /\ waiting_players' = WithoutChannel(waiting_players, c)
    /\ sent' = <<Frame({c}, "queue_update", 0)>>
               \o broadcast_waiting_list(waiting_players', lobby)
    /\ UNCHANGED <<connected, lobby, groups, active_games, active_tournaments,
                   tournament_players, gm_active_games, gm_player_games,
                   sync_loops, cleanup_threads, advance_tasks, launching>>
    /\ UNCHANGED lock_vars

\* PongGame.game_loop: one PongGame.update of a running game; a win calls
\* GameManager.handle_game_over, which starts the delayed_cleanup thread
Update(room, edge) ==
    /\ room \in DOMAIN gm_active_games
    /\ gm_active_games[room].is_running
    /\ With(game_update(gm_active_games[room], edge), LAMBDA g :
            /\ gm_active_games' = [gm_active_games EXCEPT ![room] = g]
            /\ cleanup_threads' = IF g.winner # "none"
                                  THEN cleanup_threads \cup {room}
                                  ELSE cleanup_threads)
    /\ sent' = <<>>
    /\ UNCHANGED <<connected, lobby, groups, waiting_players, active_games,
                   active_tournaments, tournament_players, gm_player_games,
                   sync_loops, advance_tasks, launching>>
    /\ UNCHANGED lock_vars

\* PongGame.game_loop: one frame of a running game whose ball moves by (dx, dy)
Tick(room, dx, dy) ==
    /\ room \in DOMAIN gm_active_games
    /\ gm_active_games[room].is_running
    /\ gm_active_games[room].ball_vx \in {0, Sign(dx)}
    /\ With(game_tick(gm_active_games[room], dx, dy), LAMBDA g :
            /\ gm_active_games' = [gm_active_games EXCEPT ![room] = g]
            /\ cleanup_threads' = IF g.winner # "none"
                                  THEN cleanup_threads \cup {room}
                                  ELSE cleanup_threads)
    /\ sent' = <<>>
    /\ UNCHANGED <<connected, lobby, groups, waiting_players, active_games,
                   active_tournaments, tournament_players, gm_player_games,
                   sync_loops, advance_tasks, launching>>
    /\ UNCHANGED lock_vars

\* GameManager.handle_game_over.delayed_cleanup, after its 5 s sleep
DelayedCleanup(room) ==
    /\ room \in cleanup_threads
    /\ cleanup_threads' = cleanup_threads \ {room}
    /\ gm_active_games' = IF room \in DOMAIN gm_active_games
                          THEN Del(gm_active_games, room)
                          ELSE gm_active_games
    /\ sent' = <<>>
    /\ UNCHANGED <<connected, lobby, groups, waiting_players, active_games,
                   active_tournaments, tournament_players, gm_player_games,
                   sync_loops, advance_tasks, launching>>
    /\ UNCHANGED lock_vars

\* the frames of one iteration of game_sync_loop for a game it found
SyncFrames(room, game) ==
    IF game.is_running
    THEN <<Frame(GroupOf(groups, room), "game_state_update",
                 [left |-> game.left_score, right |-> game.right_score])>>
    ELSE IF game.winner # "none"
    THEN <<Frame(GroupOf(groups, room), "game_over",
                 [score |-> IF game.winner = "left" THEN game.left_score
                            ELSE game.right_score,
                  winner |-> game.winner])>>
    ELSE <<>>

\* PongConsumer.game_sync_loop: one iteration of the while loop
GameSyncLoop(room) ==
    /\ room \in sync_loops
    /\ IF room \notin DOMAIN gm_active_games
       THEN /\ sync_loops' = sync_loops \ {room}
            /\ sent' = <<>>
       ELSE /\ sync_loops' = IF gm_active_games[room].is_running
                             THEN sync_loops ELSE sync_loops \ {room}
            /\ sent' = SyncFrames(room, gm_active_games[room])
    /\ UNCHANGED <<connected, lobby, groups, waiting_players, active_games,
                   active_tournaments, tournament_players, gm_active_games,
                   gm_player_games, cleanup_threads, advance_tasks, launching>>
    /\ UNCHANGED lock_vars

\* PongConsumer.start_tournament_match up to its asyncio.sleep(0.5): the game is
\* created, both players attached, and the coroutine of `handler` is suspended.
\* `then` names what the caller does after it returns.
StartMatchIn(room, handler, tid, rounds, match, then) ==
    /\ room # 0
    /\ With(SeatPlayers(room, rounds, match.player1_channel,
                        match.player2_channel),
            LAMBDA a2 :
            /\ gm_active_games' = a2.games
            /\ gm_player_games' = a2.players)
    /\ groups' = group_add(group_add(groups, room, match.player1_channel),
                           room, match.player2_channel)
    /\ active_games' = Put(Put(active_games, match.player1_channel, room),
                           match.player2_channel, room)
    /\ launching' = launching \cup
          {[room |-> room, handler |-> handler, tournament |-> tid,
            player1_channel |-> match.player1_channel,
            player2_channel |-> match.player2_channel,
            rounds |-> rounds, then |-> then]}

StartMatch(handler, tid, T, then) ==
    StartMatchIn(FreshRoom, handler, tid, T.rounds, T.matches[T.current_match], then)

\* the handler returns without calling start_tournament_match
NoStartMatch ==
    UNCHANGED <<gm_active_games, gm_player_games, groups, active_games, launching>>

\* PongConsumer.start_tournament_match after the sleep, and the rest of the
\* handler that awaited it
StartMatchResume(l) ==
    /\ l \in launching
    /\ launching' = launching \ {l}
    /\ With(gm_start_game(gm_active_games, l.room), LAMBDA st :
            /\ gm_active_games' = st.games
            /\ sync_loops' = IF st.ret THEN sync_loops \cup {l.room}
                             ELSE sync_loops
            /\ sent' = (IF st.ret
                        THEN TournamentStartGameFrames(l.room, l.rounds,
                                                       l.player1_channel,
                                                       l.player2_channel)
                        ELSE <<>>)
                       \o (IF l.then = "broadcast_tournament_list"
                           THEN broadcast_tournament_list(active_tournaments, lobby)
                           ELSE <<>>))
    /\ UNCHANGED <<connected, lobby, groups, waiting_players, active_games,
                   active_tournaments, tournament_players, gm_player_games,
                   cleanup_threads, advance_tasks>>
    /\ UNCHANGED lock_vars

\* asyncio.create_task(delayed_advance()) n times for tournament tid
Schedule(tid, n) ==
    /\ advance_tasks[tid] + n <= MaxPending
    /\ advance_tasks' = [advance_tasks EXCEPT ![tid] = @ + n]

\* record_match_result.delayed_advance, after its 0.5 s sleep
DelayedAdvance(tid) ==
    /\ advance_tasks[tid] > 0
    /\ advance_tasks' = [advance_tasks EXCEPT ![tid] = @ - 1]
    /\ active_tournaments' =
          IF tid \in DOMAIN active_tournaments
          THEN [active_tournaments EXCEPT ![tid] = delayed_advance(@)]
          ELSE active_tournaments
    /\ sent' = <<>>
    /\ UNCHANGED <<connected, lobby, groups, waiting_players, active_games,
                   tournament_players, gm_active_games, gm_player_games,
                   sync_loops, cleanup_threads, launching>>
    /\ UNCHANGED lock_vars

\* the frames of handle_tournament_game_over after a recorded result
ResultFrames(tid, res) ==
    <<Frame({res.winner_channel}, "tournament_match_result",
            [won |-> TRUE, opponent |-> res.loser,
             tournament_complete |-> res.tournament_complete]),
      Frame({res.loser_channel}, "tournament_eliminated", res.winner)>>
    \o (IF res.tournament_complete
        THEN (IF res.winner_channel \in PlayerChannels(res.t)
              THEN <<Frame({res.winner_channel}, "tournament_victory", 0)>>
              ELSE <<>>)
             \o (IF PlayerChannels(res.t) \ {res.winner_channel} # {}
                 THEN <<Frame(PlayerChannels(res.t) \ {res.winner_channel},
                              "tournament_complete", res.winner)>>
                 ELSE <<>>)
        ELSE <<>>)
    \o TournamentUpdates(tid, res.t)

\* handle_tournament_game_over returns False, or the message is ignored
GameOverIgnored ==
    /\ sent' = <<>>
    /\ NoStartMatch
    /\ UNCHANGED <<active_tournaments, advance_tasks>>

\* handle_tournament_game_over once record_match_result has returned res
GameOverRecorded(c, tid, res) ==
    IF res.ok \/ res.raised
    THEN /\ active_tournaments' = [active_tournaments EXCEPT ![tid] = res.t]
         /\ Schedule(tid, res.scheduled)
         /\ sent' = IF res.raised THEN <<>> ELSE ResultFrames(tid, res)
         /\ IF ~res.raised /\ res.t.current_match # 0
            THEN StartMatch(c, tid, res.t, "return")
            ELSE NoStartMatch
    ELSE GameOverIgnored

\* PongConsumer.receive, msg_type "game_over" (and "tournament_game_over" with a
\* winner field): handle_tournament_game_over(self.channel_name)
GameOver(c) ==
    /\ c \in connected /\ ~Busy(c)
    /\ With(Get(tournament_players, c), LAMBDA tid :
            IF tid # 0 /\ tid \in DOMAIN active_tournaments
               /\ active_tournaments[tid].current_match # 0
            THEN With(record_match_result(active_tournaments[tid], c),
                      LAMBDA res : GameOverRecorded(c, tid, res))
            ELSE GameOverIgnored)
    /\ UNCHANGED <<connected, lobby, waiting_players, tournament_players,
                   sync_loops, cleanup_threads>>
    /\ UNCHANGED lock_vars

\* the tournament part of disconnect / handle_leave_tournament for a channel
\* that is not in a registered tournament
NoDeparture ==
    [at |-> active_tournaments, tp |-> tournament_players,
     frames |-> <<>>, raised |-> FALSE, scheduled |-> 0]

\* the "else" branch of disconnect / handle_leave_tournament, given what
\* remove_player returned
DepartureOf(tid, rp, checked) ==
    IF rp.raised
    THEN [at |-> [active_tournaments EXCEPT ![tid] = rp.t],
          tp |-> tournament_players,
          frames |-> <<>>, raised |-> TRUE, scheduled |-> rp.scheduled]
    ELSE IF checked /\ ~rp.ok
    THEN NoDeparture
    ELSE [at |-> IF Len(rp.t.players) = 0
                 THEN Del(active_tournaments, tid)
                 ELSE [active_tournaments EXCEPT ![tid] = rp.t],
          tp |-> tournament_players,
          frames |-> TournamentUpdates(tid, rp.t),
          raised |-> FALSE, scheduled |-> rp.scheduled]

\* the tournament part of disconnect / handle_leave_tournament for an entrant c
\* of a registered tournament: [at, tp, frames, raised, scheduled]
\*   at, tp : active_tournaments and tournament_players when this part ends
\*            (tp still holds c: the callers delete it)
\*   raised : remove_player raised (math.log2(0)); nothing after it has run
\*   checked: disconnect tests remove_player's return value, leave does not
TournamentDeparture(c, tid, checked) ==
    IF active_tournaments[tid].creator_channel = c
       /\ ~active_tournaments[tid].started
    THEN [at |-> Del(active_tournaments, tid),
          tp |-> [x \in (DOMAIN tournament_players)
                          \ (PlayerChannels(active_tournaments[tid]) \ {c})
                     |-> tournament_players[x]],
          frames |-> TournamentLeftFrames(active_tournaments[tid], c),
          raised |-> FALSE, scheduled |-> 0]
    ELSE With(remove_player(active_tournaments[tid], c),
              LAMBDA rp : DepartureOf(tid, rp, checked))

\* the channels disconnect notifies with opponent_left
Opponents(c, game_room) ==
    {ch \in DOMAIN active_games : active_games[ch] = game_room /\ ch # c}

\* disconnect after its tournament part: the game room and the lobby group
DisconnectRoom(c, game_room, raised, frames) ==
    /\ IF game_room # 0 /\ ~raised
       THEN /\ With(gm_remove_player_from_game(gm_active_games,
                                               gm_player_games, c),
                    LAMBDA rm : /\ gm_active_games' = rm.games
                                /\ gm_player_games' = rm.players)
            /\ groups' = group_discard(groups, game_room, c)
            /\ active_games' = [x \in (DOMAIN active_games)
                                       \ (Opponents(c, game_room) \cup {c})
                                  |-> active_games[x]]
            /\ sent' = frames
                       \o (IF Opponents(c, game_room) # {}
                           THEN <<Frame(Opponents(c, game_room),
                                        "opponent_left", 0)>>
                           ELSE <<>>)
       ELSE /\ sent' = frames
            /\ UNCHANGED <<gm_active_games, gm_player_games, groups,
                           active_games>>
    /\ lobby' = IF raised THEN lobby ELSE lobby \ {c}

\* disconnect from its tournament part on, given that part's outcome dep
DisconnectTail(c, tid, dep) ==
    /\ active_tournaments' = dep.at
    /\ tournament_players' = IF tid = 0 \/ dep.raised THEN dep.tp
                             ELSE Del(dep.tp, c)
    /\ IF dep.scheduled > 0 THEN Schedule(tid, dep.scheduled)
       ELSE UNCHANGED advance_tasks
    /\ DisconnectRoom(c, Get(active_games, c), dep.raised,
          broadcast_waiting_list(WithoutChannel(waiting_players, c), lobby)
          \o (IF tid = 0 \/ dep.raised THEN <<>>
              ELSE dep.frames \o broadcast_tournament_list(dep.at, lobby)))

\* PongConsumer.disconnect
Disconnect(c) ==
    /\ c \in connected /\ ~Busy(c)
    /\ connected' = connected \ {c}
    /\ waiting_players' = WithoutChannel(waiting_players, c)
    /\ With(Get(tournament_players, c), LAMBDA tid :
            With(IF tid # 0 /\ tid \in DOMAIN active_tournaments
                 THEN TournamentDeparture(c, tid, TRUE)
                 ELSE NoDeparture,
                 LAMBDA dep : DisconnectTail(c, tid, dep)))
    /\ UNCHANGED <<sync_loops, cleanup_threads, launching>>
    /\ UNCHANGED lock_vars

\* handle_leave_tournament for an entrant of a registered tournament
LeaveRegistered(c, tid, dep) ==
    /\ active_tournaments' = dep.at
    /\ IF dep.scheduled > 0 THEN Schedule(tid, dep.scheduled)
       ELSE UNCHANGED advance_tasks
    /\ tournament_players' = IF dep.raised THEN dep.tp ELSE Del(dep.tp, c)
    /\ sent' = IF dep.raised THEN <<>>
               ELSE dep.frames \o <<Frame({c}, "tournament_left", "left")>>
                    \o broadcast_tournament_list(dep.at, lobby)

\* PongConsumer.handle_leave_tournament
LeaveTournament(c) ==
    /\ c \in connected /\ ~Busy(c)
    /\ With(Get(tournament_players, c), LAMBDA tid :
            IF tid = 0
            THEN /\ sent' = <<Frame({c}, "tournament_error", "not in a tournament")>>
                 /\ UNCHANGED <<active_tournaments, tournament_players,
                                advance_tasks>>
            ELSE IF tid \notin DOMAIN active_tournaments
            THEN /\ tournament_players' = Del(tournament_players, c)
                 /\ sent' = <<Frame({c}, "tournament_left", "left")>>
                 /\ UNCHANGED <<active_tournaments, advance_tasks>>
            ELSE With(TournamentDeparture(c, tid, FALSE),
                      LAMBDA dep : LeaveRegistered(c, tid, dep)))
    /\ UNCHANGED <<connected, lobby, groups, waiting_players, active_games,
                   gm_active_games, gm_player_games, sync_loops,
                   cleanup_threads, launching>>
    /\ UNCHANGED lock_vars

\* random.shuffle(shuffled_players): the orders explored
Shuffles == {"kept", "reversed"}
Permute(players, perm) ==
    IF perm = "kept" THEN players
    ELSE [i \in 1..Len(players) |-> players[Len(players) + 1 - i]]

\* handle_start_tournament once start_tournament has returned r
Started(c, tid, r) ==
    /\ active_tournaments' = [active_tournaments EXCEPT ![tid] = r.t]
    /\ IF ~r.ret
       THEN /\ sent' = <<Frame({c}, "tournament_error", "Cannot start")>>
            /\ NoStartMatch
       ELSE /\ sent' = TournamentUpdates(tid, r.t)
                       \o (IF r.t.current_match # 0 THEN <<>>
                           ELSE broadcast_tournament_list(active_tournaments', lobby))
            /\ IF r.t.current_match # 0
               THEN StartMatch(c, tid, r.t, "broadcast_tournament_list")
               ELSE NoStartMatch

\* handle_start_tournament without the creator test
StartTournamentByAnyone(c, tid, perm) ==
    /\ c \in connected /\ ~Busy(c)
    /\ IF tid \notin DOMAIN active_tournaments
       THEN /\ sent' = <<Frame({c}, "tournament_error", "Tournament not found")>>
            /\ NoStartMatch
            /\ UNCHANGED active_tournaments
       ELSE With(start_tournament(active_tournaments[tid],
                                  Permute(active_tournaments[tid].players, perm)),
                 LAMBDA r : Started(c, tid, r))
    /\ UNCHANGED <<connected, lobby, waiting_players, tournament_players,
                   sync_loops, cleanup_threads, advance_tasks>>
    /\ UNCHANGED lock_vars

\* PongConsumer.handle_start_tournament
StartTournament(c, tid, perm) ==
    /\ c \in connected /\ ~Busy(c)
    /\ IF tid \notin DOMAIN active_tournaments
       THEN /\ sent' = <<Frame({c}, "tournament_error", "Tournament not found")>>
            /\ NoStartMatch
            /\ UNCHANGED active_tournaments
       ELSE IF c # active_tournaments[tid].creator_channel
       THEN /\ sent' = <<Frame({c}, "tournament_error", "Only the creator")>>
            /\ NoStartMatch
            /\ UNCHANGED active_tournaments
       ELSE With(start_tournament(active_tournaments[tid],
                                  Permute(active_tournaments[tid].players, perm)),
                 LAMBDA r : Started(c, tid, r))
    /\ UNCHANGED <<connected, lobby, waiting_players, tournament_players,
                   sync_loops, cleanup_threads, advance_tasks>>
    /\ UNCHANGED lock_vars

\* request_final_match once advance_tournament has returned adv
Advanced(c, tid, adv) ==
    IF adv.raised \/ ~adv.ret
    THEN /\ active_tournaments' = [active_tournaments EXCEPT ![tid] = adv.t]
         /\ sent' = <<>>
         /\ NoStartMatch
    ELSE /\ active_tournaments' = [active_tournaments EXCEPT ![tid] = adv.t]
         /\ sent' = TournamentUpdates(tid, adv.t)
         /\ IF adv.t.current_match # 0
            THEN StartMatch(c, tid, adv.t, "return")
            ELSE NoStartMatch

\* PongConsumer.receive, msg_type == "request_final_match"
RequestFinalMatch(c, tid) ==
    /\ c \in connected /\ ~Busy(c)
    /\ IF tid \in DOMAIN active_tournaments
       THEN With(advance_tournament(active_tournaments[tid]),
                 LAMBDA adv : Advanced(c, tid, adv))
       ELSE /\ sent' = <<>>
            /\ NoStartMatch
            /\ UNCHANGED active_tournaments
    /\ UNCHANGED <<connected, lobby, waiting_players, tournament_players,
                   sync_loops, cleanup_threads, advance_tasks>>
    /\ UNCHANGED lock_vars

\* ready_for_match: the first match of the nickname that can be played
potential_match(T, nickname) ==
    FirstIdx({i \in 1..Len(T.matches) :
                /\ (T.matches[i].player1 = nickname
                    \/ T.matches[i].player2 = nickname)
                /\ IsReady(T.matches[i])})

\* ready_for_match once the match is chosen
Readied(c, tid, T1) ==
    /\ active_tournaments' = [active_tournaments EXCEPT ![tid] = T1]
    /\ sent' = TournamentUpdates(tid, T1)
    /\ StartMatch(c, tid, T1, "return")

\* PongConsumer.receive, msg_type == "ready_for_match"
ReadyForMatch(c, tid, nickname) ==
    /\ c \in connected /\ ~Busy(c)
    /\ IF tid \in DOMAIN active_tournaments
          /\ active_tournaments[tid].current_match = 0
          /\ potential_match(active_tournaments[tid], nickname) # 0
       THEN Readied(c, tid,
                    [active_tournaments[tid] EXCEPT !.current_match =
                        potential_match(active_tournaments[tid], nickname)])
       ELSE /\ sent' = <<>>
            /\ NoStartMatch
            /\ UNCHANGED active_tournaments
    /\ UNCHANGED <<connected, lobby, waiting_players, tournament_players,
                   sync_loops, cleanup_threads, advance_tasks>>
    /\ UNCHANGED lock_vars

\* PongConsumer.handle_create_tournament
CreateTournament(c, nickname, rounds, size) ==
    /\ c \in connected /\ ~Busy(c)
    /\ IF size \notin {4, 6, 8}
       THEN /\ sent' = <<Frame({c}, "tournament_error", "size")>>
            /\ UNCHANGED <<active_tournaments, tournament_players>>
       ELSE /\ FreshTournament # 0
            /\ active_tournaments' =
                  Put(active_tournaments, FreshTournament,
                      add_player([NewTournament(c, size) EXCEPT !.rounds = rounds],
                                 c, nickname).t)
            /\ tournament_players' = Put(tournament_players, c, FreshTournament)
            /\ sent' = <<Frame({c}, "tournament_created",
                               tournament_get_state(FreshTournament,
                                   active_tournaments'[FreshTournament]))>>
                       \o broadcast_tournament_list(active_tournaments', lobby)
    /\ UNCHANGED <<connected, lobby, groups, waiting_players, active_games,
                   gm_active_games, gm_player_games, sync_loops,
                   cleanup_threads, advance_tasks, launching>>
    /\ UNCHANGED lock_vars

\* handle_join_tournament once add_player has returned r
Joined(c, tid, r) ==
    IF ~r.ok
    THEN /\ sent' = <<Frame({c}, "tournament_error", "Cannot join")>>
         /\ UNCHANGED <<active_tournaments, tournament_players>>
    ELSE /\ active_tournaments' = [active_tournaments EXCEPT ![tid] = r.t]
         /\ tournament_players' = Put(tournament_players, c, tid)
         /\ sent' = <<Frame({c}, "tournament_joined",
                            tournament_get_state(tid, r.t))>>
                    \o TournamentUpdates(tid, r.t)
                    \o broadcast_tournament_list(active_tournaments', lobby)

\* PongConsumer.handle_join_tournament
JoinTournament(c, tid, nickname) ==
    /\ c \in connected /\ ~Busy(c)
    /\ IF tid \notin DOMAIN active_tournaments
       THEN /\ sent' = <<Frame({c}, "tournament_error", "Tournament not found")>>
            /\ UNCHANGED <<active_tournaments, tournament_players>>
       ELSE IF active_tournaments[tid].started
       THEN /\ sent' = <<Frame({c}, "tournament_error", "already started")>>
            /\ UNCHANGED <<active_tournaments, tournament_players>>
       ELSE With(add_player(active_tournaments[tid], c, nickname),
                 LAMBDA r : Joined(c, tid, r))
    /\ UNCHANGED <<connected, lobby, groups, waiting_players, active_games,
                   gm_active_games, gm_player_games, sync_loops,
                   cleanup_threads, advance_tasks, launching>>
    /\ UNCHANGED lock_vars

\* Tournament.start_tournament called on the object
TournamentStart(tid, perm) ==
    /\ tid \in DOMAIN active_tournaments
    /\ active_tournaments' =
          [active_tournaments EXCEPT ![tid] =
              start_tournament(@, Permute(@.players, perm)).t]
    /\ UNCHANGED <<connected, lobby, groups, waiting_players, active_games,
                   tournament_players, gm_active_games, gm_player_games,
                   sync_loops, cleanup_threads, advance_tasks, launching, sent>>
    /\ UNCHANGED lock_vars

\* a method of the Tournament object that may create delayed_advance tasks,
\* given its outcome
TournamentCall(tid, res) ==
    /\ active_tournaments' = [active_tournaments EXCEPT ![tid] = res.t]
    /\ IF res.scheduled > 0 THEN Schedule(tid, res.scheduled)
       ELSE UNCHANGED advance_tasks

\* Tournament.record_match_result called on the object
TournamentRecord(tid, winner_channel) ==
    /\ tid \in DOMAIN active_tournaments
    /\ With(record_match_result(active_tournaments[tid], winner_channel),
            LAMBDA res : TournamentCall(tid, res))
    /\ UNCHANGED <<connected, lobby, groups, waiting_players, active_games,
                   tournament_players, gm_active_games, gm_player_games,
                   sync_loops, cleanup_threads, launching, sent>>
    /\ UNCHANGED lock_vars

\* Tournament.remove_player called on the object
TournamentRemove(tid, channel) ==
    /\ tid \in DOMAIN active_tournaments
    /\ With(remove_player(active_tournaments[tid], channel),
            LAMBDA rp : TournamentCall(tid, rp))
    /\ UNCHANGED <<connected, lobby, groups, waiting_players, active_games,
                   tournament_players, gm_active_games, gm_player_games,
                   sync_loops, cleanup_threads, launching, sent>>
    /\ UNCHANGED lock_vars

\* ======================================================== specifications
\* the server after start-up: no connection, empty registries
Init ==
    /\ connected = {}
    /\ lobby = {}
    /\ groups = EmptyDict
    /\ waiting_players = <<>>
    /\ active_games = EmptyDict
    /\ active_tournaments = EmptyDict
    /\ tournament_players = EmptyDict
    /\ gm_active_games = EmptyDict
    /\ gm_player_games = EmptyDict
    /\ sync_loops = {}
    /\ cleanup_threads = {}
    /\ advance_tasks = [t \in TIds |-> 0]
    /\ launching = {}
    /\ sent = <<>>
    /\ LockInit

\* inputs of the lobby specification
LobbyConns == 1..NLobbyConns
RoundsChoices == {1, 2}
Sides == {"left", "right"}
\* the connections that may send join: the lobby opens MaxLobbyRooms rooms
Joiners == IF FreshRoom <= MaxLobbyRooms THEN LobbyConns ELSE {}

\* Lobby and match engine: connections come and go, queue, get paired and play.
Next ==
    \/ \E c \in LobbyConns : Connect(c)
    \/ \E c \in LobbyConns : Disconnect(c)
    \/ \E c \in Joiners, r \in RoundsChoices : Join(c, c, r)
    \/ \E c \in LobbyConns : LeaveQueue(c)
    \/ \E r \in Rooms, e \in Sides : Update(r, e)
    \/ \E r \in Rooms : GameSyncLoop(r)
    \/ \E r \in Rooms : DelayedCleanup(r)

Spec == Init /\ [][Next]_vars

\* A registered tournament: channel 1 created tournament 1, channels 2..n
\* joined it, built with the handlers' own add_player.
RECURSIVE Registered(_, _)
Registered(T, n) ==
    IF n <= 1 THEN add_player(T, 1, 1).t
    ELSE add_player(Registered(T, n - 1), n, n).t

TournamentRounds == 1

RegisteredInit(size) ==
    /\ connected = 1..size
    /\ lobby = 1..size
    /\ groups = EmptyDict
    /\ waiting_players = <<>>
    /\ active_games = EmptyDict
    /\ active_tournaments =
          Put(EmptyDict, 1,
              Registered([NewTournament(1, size) EXCEPT !.rounds = TournamentRounds],
                         size))
    /\ tournament_players = [c \in 1..size |-> 1]
    /\ gm_active_games = EmptyDict
    /\ gm_player_games = EmptyDict
    /\ sync_loops = {}
    /\ cleanup_threads = {}
    /\ advance_tasks = [t \in TIds |-> 0]
    /\ launching = {}
    /\ sent = <<>>
    /\ LockInit

\* entrants of tournament tid that have gone since it filled
Gone(tid) ==
    IF tid \in DOMAIN active_tournaments
    THEN active_tournaments[tid].size - Len(active_tournaments[tid].players)
    ELSE MaxLeaves

\* the connections of the Tournament Director specification
DirectorConns == 1..NDirectorConns
\* the connections that may send leave_tournament: MaxDepartures entrants go
\* per behaviour
Leavers == IF Gone(1) < MaxDepartures THEN DirectorConns ELSE {}
\* the connections that may drop: those, and the ones that are no entrant
Droppers ==
    Leavers \cup {c \in DirectorConns :
                     1 \in DOMAIN active_tournaments
                     /\ c \notin PlayerChannels(active_tournaments[1])}

\* Registration: connections open, create a tournament, join it, leave it,
\* start it. The states RegisteredInit describes are reached this way.
RegistrationSizes == {4, 5}
\* the connections that may send create_tournament: one tournament is open at
\* a time
Creators == IF FreshTournament = 1 THEN DirectorConns ELSE {}
RNext ==
    \/ \E c \in DirectorConns : Connect(c)
    \/ \E c \in Creators, size \in RegistrationSizes :
          CreateTournament(c, c, TournamentRounds, size)
    \/ \E c \in DirectorConns, tid \in {1, 2} : JoinTournament(c, tid, c)
    \/ \E c \in DirectorConns, perm \in Shuffles : StartTournament(c, 1, perm)
    \/ \E c \in DirectorConns : LeaveTournament(c)
    \/ \E c \in DirectorConns : Disconnect(c)

RSpec == Init /\ [][RNext]_vars

\* Tournament Director with its matches in the engine: a full tournament is
\* started, played, left and disconnected from. The matches' sync loops and
\* cleanup threads run in the lobby specification.
TInit == RegisteredInit(NDirectorConns)

TNext ==
    \/ \E c \in DirectorConns, p \in Shuffles : StartTournament(c, 1, p)
    \/ \E c \in DirectorConns : GameOver(c)
    \/ \E c \in Droppers : Disconnect(c)
    \/ \E c \in Leavers : LeaveTournament(c)
    \/ \E c \in DirectorConns : RequestFinalMatch(c, 1)
    \/ \E c \in DirectorConns, n \in DirectorConns : ReadyForMatch(c, 1, n)
    \/ \E tid \in TIds : DelayedAdvance(tid)
    \/ \E l \in launching : StartMatchResume(l)
    \/ \E r \in Rooms, e \in Sides : Update(r, e)

TSpec == TInit /\ [][TNext]_vars

\* the channels remove_player may be called with
Removable == IF Gone(1) < MaxLeaves THEN Conns ELSE {}

\* The Tournament object alone, for every declared size: its methods are called
\* in any order with any channel.
DSizes == {4, 6, 8}
DInit == \E size \in DSizes : RegisteredInit(size)

DNext ==
    \/ \E p \in Shuffles : TournamentStart(1, p)
    \/ \E c \in Conns : TournamentRecord(1, c)
    \/ \E c \in Removable : TournamentRemove(1, c)
    \/ \E tid \in TIds : DelayedAdvance(tid)

DSpec == DInit /\ [][DNext]_vars

\* Memberships of a connection: two connections queue, get paired, create, join
\* and leave tournaments, and disconnect, in any order.
NMemberConns == 2
MemberConns == 1..NMemberConns
MemberSizes == {4}
CNext ==
    \/ \E c \in MemberConns : Connect(c)
    \/ \E c \in Joiners \cap MemberConns : Join(c, c, TournamentRounds)
    \/ \E c \in MemberConns : LeaveQueue(c)
    \/ \E c \in MemberConns, size \in MemberSizes :
          CreateTournament(c, c, TournamentRounds, size)
    \/ \E c \in MemberConns, tid \in TIds : JoinTournament(c, tid, c)
    \/ \E c \in MemberConns : LeaveTournament(c)
    \/ \E c \in MemberConns : Disconnect(c)

CSpec == Init /\ [][CNext]_vars

\* The match engine alone: connections 1 and 2 have been paired by join for any
\* target_rounds up to MaxTargetRounds; the simulation ticks, the snapshot
\* emitter and the delayed disposal run.
MaxTargetRounds == 10
TargetRounds == 1..MaxTargetRounds
Edges == {"left", "right", "none"}

\* game_manager.active_games and player_games after the join handler has
\* created room 1 for `rounds`, seated 1 left and 2 right and started it
PairedGames(rounds) ==
    With(gm_add_player_to_game(gm_create_game(EmptyDict, 1, rounds),
                               EmptyDict, 1, 1, "left"),
         LAMBDA a1 :
         With(gm_add_player_to_game(a1.games, a1.players, 1, 2, "right"),
              LAMBDA a2 :
              [games |-> gm_start_game(a2.games, 1).games,
               players |-> a2.players]))

PairedInit(rounds) ==
    /\ connected = {1, 2}
    /\ lobby = {1, 2}
    /\ groups = Put(EmptyDict, 1, {1, 2})
    /\ waiting_players = <<>>
    /\ active_games = Put(Put(EmptyDict, 2, 1), 1, 1)
    /\ active_tournaments = EmptyDict
    /\ tournament_players = EmptyDict
    /\ gm_active_games = PairedGames(rounds).games
    /\ gm_player_games = PairedGames(rounds).players
    /\ sync_loops = {1}
    /\ cleanup_threads = {}
    /\ advance_tasks = [t \in TIds |-> 0]
    /\ launching = {}
    /\ sent = <<>>
    /\ LockInit

GInit == \E rounds \in TargetRounds : PairedInit(rounds)

GNext ==
    \/ \E r \in Rooms, e \in Edges : Update(r, e)
    \/ \E r \in Rooms : GameSyncLoop(r)
    \/ \E r \in Rooms : DelayedCleanup(r)

GSpec == GInit /\ [][GNext]_vars

\* The match engine with its scheduling: the event loop runs the snapshot
\* emitter's next iteration, and the cleanup thread wakes up from its sleep.
GFairSpec ==
    /\ GSpec
    /\ WF_vars(\E r \in Rooms : GameSyncLoop(r))
    /\ WF_vars(\E r \in Rooms : DelayedCleanup(r))

\* The Game Manager alone: its operations are called in any order on
\* NManagerRooms rooms and NManagerConns connections, the simulation ticks and
\* the cleanup threads run. A Match is ticked until MaxPoints points are scored.
NManagerRooms == 1
NManagerConns == 2
MaxPoints == 3
ManagerRooms == 1..NManagerRooms
ManagerConns == 1..NManagerConns
ManagerRounds == {1, 3}
AttachSides == {"left", "right", "none"}
PaddleInputs == {0 - 20, 200, 400}

\* game_manager.create_game(room, rounds)
ManagerCreate(room, rounds) ==
    /\ gm_active_games' = gm_create_game(gm_active_games, room, rounds)
    /\ sent' = <<>>
    /\ UNCHANGED <<connected, lobby, groups, waiting_players, active_games,
                   active_tournaments, tournament_players, gm_player_games,
                   sync_loops, cleanup_threads, advance_tasks, launching>>
    /\ UNCHANGED lock_vars

\* game_manager.add_player_to_game(room, c, side)
ManagerAttach(room, c, side) ==
    /\ With(gm_add_player_to_game(gm_active_games, gm_player_games, room, c, side),
            LAMBDA a : /\ gm_active_games' = a.games
                       /\ gm_player_games' = a.players)
    /\ sent' = <<>>
    /\ UNCHANGED <<connected, lobby, groups, waiting_players, active_games,
                   active_tournaments, tournament_players, sync_loops,
                   cleanup_threads, advance_tasks, launching>>
    /\ UNCHANGED lock_vars

\* game_manager.remove_player_from_game(c)
ManagerDetach(c) ==
    /\ With(gm_remove_player_from_game(gm_active_games, gm_player_games, c),
            LAMBDA rm : /\ gm_active_games' = rm.games
                        /\ gm_player_games' = rm.players)
    /\ sent' = <<>>
    /\ UNCHANGED <<connected, lobby, groups, waiting_players, active_games,
                   active_tournaments, tournament_players, sync_loops,
                   cleanup_threads, advance_tasks, launching>>
    /\ UNCHANGED lock_vars

\* game_manager.start_game(room)
ManagerStart(room) ==
    /\ gm_active_games' = gm_start_game(gm_active_games, room).games
    /\ sent' = <<>>
    /\ UNCHANGED <<connected, lobby, groups, waiting_players, active_games,
                   active_tournaments, tournament_players, gm_player_games,
                   sync_loops, cleanup_threads, advance_tasks, launching>>
    /\ UNCHANGED lock_vars

\* game_manager.update_paddle(c, y)
ManagerSetPaddle(c, y) ==
    /\ gm_active_games' = gm_update_paddle(gm_active_games, gm_player_games, c, y).games
    /\ sent' = <<>>
    /\ UNCHANGED <<connected, lobby, groups, waiting_players, active_games,
                   active_tournaments, tournament_players, gm_player_games,
                   sync_loops, cleanup_threads, advance_tasks, launching>>
    /\ UNCHANGED lock_vars

\* the Matches that may still be ticked
Ticking ==
    {r \in DOMAIN gm_active_games :
        gm_active_games[r].left_score + gm_active_games[r].right_score < MaxPoints}

MNext ==
    \/ \E r \in ManagerRooms, n \in ManagerRounds : ManagerCreate(r, n)
    \/ \E r \in ManagerRooms, c \in ManagerConns, side \in AttachSides :
          ManagerAttach(r, c, side)
    \/ \E c \in ManagerConns : ManagerDetach(c)
    \/ \E r \in ManagerRooms : ManagerStart(r)
    \/ \E c \in ManagerConns, y \in PaddleInputs : ManagerSetPaddle(c, y)
    \/ \E r \in Ticking, e \in Sides : Update(r, e)
    \/ \E r \in ManagerRooms : DelayedCleanup(r)

MSpec == Init /\ [][MNext]_vars

\* ---------------------------------------------------------------------------
\* The Game Manager with its locks. A `with lock` statement is two steps: the
\* thread reaches it, and waits there while the lock is held; then it enters the
\* block. The body of a method is run in the step that enters its innermost
\* block, the locks are given back one step at a time.
LockRounds == {1}
LockPaddles == {200}

\* the calls the handlers make on game_manager, and get_state on the game found
Calls ==
    {[Resting EXCEPT !.at = "manager", !.op = "create", !.room = r, !.rounds = n] :
        r \in ManagerRooms, n \in LockRounds}
    \cup {[Resting EXCEPT !.at = "manager", !.op = "attach", !.room = r,
                          !.c = c, !.side = side] :
             r \in ManagerRooms, c \in ManagerConns, side \in AttachSides}
    \cup {[Resting EXCEPT !.at = "manager", !.op = "detach", !.c = c] :
             c \in ManagerConns}
    \cup {[Resting EXCEPT !.at = "manager", !.op = "set_paddle", !.c = c, !.y = y] :
             c \in ManagerConns, y \in LockPaddles}
    \cup {[Resting EXCEPT !.at = "manager", !.op = "start", !.room = r] :
             r \in ManagerRooms}
    \cup {[Resting EXCEPT !.at = "manager", !.op = "snapshot", !.c = c] :
             c \in ManagerConns}

\* a handler calls a GameManager method and reaches its `with self.lock`
Call(t, call) ==
    /\ pc[t].at = "idle"
    /\ pc' = [pc EXCEPT ![t] = call]
    /\ UNCHANGED <<connected, lobby, groups, waiting_players, active_games,
                   active_tournaments, tournament_players, gm_active_games,
                   gm_player_games, sync_loops, cleanup_threads, advance_tasks,
                   launching, sent, manager_lock, game_locks>>

\* the thread enters `with self.lock` of the GameManager and runs the method up
\* to its call into the PongGame, or to its end: create_game, start_game,
\* get_game_for_player and delayed_cleanup take no other lock
ManagerEnter(t) ==
    /\ pc[t].at = "manager"
    /\ manager_lock = NoThread
    /\ manager_lock' = t
    /\ gm_active_games' =
          IF pc[t].op = "create"
          THEN gm_create_game(gm_active_games, pc[t].room, pc[t].rounds)
          ELSE IF pc[t].op = "start"
          THEN gm_start_game(gm_active_games, pc[t].room).games
          ELSE IF pc[t].op = "cleanup" /\ pc[t].room \in DOMAIN gm_active_games
          THEN Del(gm_active_games, pc[t].room)
          ELSE gm_active_games
    /\ cleanup_threads' = IF pc[t].op = "cleanup"
                          THEN cleanup_threads \ {pc[t].room}
                          ELSE cleanup_threads
    /\ pc' = [pc EXCEPT ![t] =
                IF pc[t].op = "attach"
                THEN [@ EXCEPT !.at = IF pc[t].room \in DOMAIN gm_active_games
                                      THEN "game" ELSE "manager_exit"]
                ELSE IF pc[t].op \in {"detach", "set_paddle", "snapshot"}
                THEN With(get_game_for_player(gm_active_games, gm_player_games,
                                              pc[t].c),
                          LAMBDA room :
                          [@ EXCEPT !.room = room,
                                    !.at = IF room # 0 /\ pc[t].op # "snapshot"
                                           THEN "game" ELSE "manager_exit"])
                ELSE [@ EXCEPT !.at = "manager_exit"]]
    /\ UNCHANGED <<connected, lobby, groups, waiting_players, active_games,
                   active_tournaments, tournament_players, gm_player_games,
                   sync_loops, advance_tasks, launching, sent, game_locks>>

\* a handler enters `with self.lock` of the PongGame: add_player, remove_player
\* and update_paddle inside the manager's block, get_state outside it
GameEnter(t) ==
    /\ pc[t].at = "game"
    /\ game_locks[pc[t].room] = NoThread
    /\ game_locks' = [game_locks EXCEPT ![pc[t].room] = t]
    /\ IF pc[t].op = "attach"
       THEN With(gm_add_player_to_game(gm_active_games, gm_player_games,
                                       pc[t].room, pc[t].c, pc[t].side),
                 LAMBDA a : /\ gm_active_games' = a.games
                            /\ gm_player_games' = a.players)
       ELSE IF pc[t].op = "detach"
       THEN With(gm_remove_player_from_game(gm_active_games, gm_player_games,
                                            pc[t].c),
                 LAMBDA rm : /\ gm_active_games' = rm.games
                             /\ gm_player_games' = rm.players)
       ELSE IF pc[t].op = "set_paddle"
       THEN /\ gm_active_games' = gm_update_paddle(gm_active_games, gm_player_games,
                                                   pc[t].c, pc[t].y).games
            /\ UNCHANGED gm_player_games
       ELSE UNCHANGED <<gm_active_games, gm_player_games>>
    /\ pc' = [pc EXCEPT ![t].at = "game_exit"]
    /\ UNCHANGED <<connected, lobby, groups, waiting_players, active_games,
                   active_tournaments, tournament_players, sync_loops,
                   cleanup_threads, advance_tasks, launching, sent, manager_lock>>

\* the thread leaves the PongGame's block
GameExit(t) ==
    /\ pc[t].at = "game_exit"
    /\ game_locks' = [game_locks EXCEPT ![pc[t].room] = NoThread]
    /\ pc' = [pc EXCEPT ![t] = IF manager_lock = t
                               THEN [@ EXCEPT !.at = "manager_exit"]
                               ELSE Resting]
    /\ UNCHANGED <<connected, lobby, groups, waiting_players, active_games,
                   active_tournaments, tournament_players, gm_active_games,
                   gm_player_games, sync_loops, cleanup_threads, advance_tasks,
                   launching, sent, manager_lock>>

\* the thread leaves the GameManager's block; the get_state handler goes on to
\* game.get_state() of the game it was given
ManagerExit(t) ==
    /\ pc[t].at = "manager_exit"
    /\ manager_lock' = NoThread
    /\ pc' = [pc EXCEPT ![t] = IF pc[t].op = "snapshot" /\ pc[t].room # 0
                               THEN [@ EXCEPT !.at = "game"]
                               ELSE Resting]
    /\ UNCHANGED <<connected, lobby, groups, waiting_players, active_games,
                   active_tournaments, tournament_players, gm_active_games,
                   gm_player_games, sync_loops, cleanup_threads, advance_tasks,
                   launching, sent, game_locks>>

\* game_loop finds the game running and calls update, which reaches `with self.lock`
WorkerLoop(room) ==
    /\ room \in Ticking
    /\ gm_active_games[room].is_running
    /\ pc[WorkerThread(room)].at = "idle"
    /\ pc' = [pc EXCEPT ![WorkerThread(room)] =
                [Resting EXCEPT !.at = "game", !.op = "update", !.room = room]]
    /\ UNCHANGED <<connected, lobby, groups, waiting_players, active_games,
                   active_tournaments, tournament_players, gm_active_games,
                   gm_player_games, sync_loops, cleanup_threads, advance_tasks,
                   launching, sent, manager_lock, game_locks>>

\* update that runs delayed_cleanup's body itself when the game is over, inside
\* the PongGame's block
WorkerUpdateThenCleanup(room, edge) ==
    /\ pc[WorkerThread(room)].at = "game"
    /\ game_locks[room] = NoThread
    /\ game_locks' = [game_locks EXCEPT ![room] = WorkerThread(room)]
    /\ IF room \in DOMAIN gm_active_games /\ gm_active_games[room].is_running
       THEN With(game_update(gm_active_games[room], edge), LAMBDA g :
                 /\ gm_active_games' = [gm_active_games EXCEPT ![room] = g]
                 /\ pc' = [pc EXCEPT ![WorkerThread(room)] =
                             IF g.winner # "none"
                             THEN [@ EXCEPT !.at = "manager", !.op = "cleanup"]
                             ELSE [@ EXCEPT !.at = "game_exit"]])
       ELSE /\ UNCHANGED gm_active_games
            /\ pc' = [pc EXCEPT ![WorkerThread(room)].at = "game_exit"]
    /\ UNCHANGED <<connected, lobby, groups, waiting_players, active_games,
                   active_tournaments, tournament_players, gm_player_games,
                   sync_loops, cleanup_threads, advance_tasks, launching, sent,
                   manager_lock>>

\* the worker enters the PongGame's block and runs update; on a win
\* check_game_over calls handle_game_over, which starts the delayed_cleanup
\* thread and takes no lock
WorkerUpdate(room, edge) ==
    /\ pc[WorkerThread(room)].at = "game"
    /\ game_locks[room] = NoThread
    /\ game_locks' = [game_locks EXCEPT ![room] = WorkerThread(room)]
    /\ IF room \in DOMAIN gm_active_games /\ gm_active_games[room].is_running
       THEN With(game_update(gm_active_games[room], edge), LAMBDA g :
                 /\ gm_active_games' = [gm_active_games EXCEPT ![room] = g]
                 /\ cleanup_threads' = IF g.winner # "none"
                                       THEN cleanup_threads \cup {room}
                                       ELSE cleanup_threads)
       ELSE UNCHANGED <<gm_active_games, cleanup_threads>>
    /\ pc' = [pc EXCEPT ![WorkerThread(room)].at = "game_exit"]
    /\ UNCHANGED <<connected, lobby, groups, waiting_players, active_games,
                   active_tournaments, tournament_players, gm_player_games,
                   sync_loops, advance_tasks, launching, sent, manager_lock>>

\* delayed_cleanup wakes up from its sleep and reaches `with self.lock`
CleanupWake(room) ==
    /\ room \in cleanup_threads
    /\ pc[CleanupThread(room)].at = "idle"
    /\ pc' = [pc EXCEPT ![CleanupThread(room)] =
                [Resting EXCEPT !.at = "manager", !.op = "cleanup", !.room = room]]
    /\ UNCHANGED <<connected, lobby, groups, waiting_players, active_games,
                   active_tournaments, tournament_players, gm_active_games,
                   gm_player_games, sync_loops, cleanup_threads, advance_tasks,
                   launching, sent, manager_lock, game_locks>>

LNext ==
    \/ \E t \in HandlerThreads, call \in Calls : Call(t, call)
    \/ \E t \in Threads : ManagerEnter(t)
    \/ \E t \in HandlerThreads : GameEnter(t)
    \/ \E t \in Threads : GameExit(t)
    \/ \E t \in Threads : ManagerExit(t)
    \/ \E r \in ManagerRooms : WorkerLoop(r)
    \/ \E r \in ManagerRooms, e \in Edges : WorkerUpdate(r, e)
    \/ \E r \in ManagerRooms : CleanupWake(r)

LSpec == Init /\ [][LNext]_vars

\* ---------------------------------------------------------------------------
\* Admission to one tournament: create_tournament, join_tournament and
\* start_tournament sent by NEntrantConns connections, one more than the
\* smallest declared size, each under its own nickname or under the nickname
\* of connection 1.
\* ---------------------------------------------------------------------------
NEntrantConns == 5
EntrantConns == 1..NEntrantConns
AdmissionSizes == {4, 6}
Aliases(c) == {c, 1}
Founders == IF FreshTournament = 1 THEN EntrantConns ELSE {}

ANext ==
    \/ \E c \in EntrantConns : Connect(c)
    \/ \E c \in Founders, size \in AdmissionSizes :
          CreateTournament(c, c, TournamentRounds, size)
    \/ \E c \in EntrantConns : \E nickname \in Aliases(c) :
          JoinTournament(c, 1, nickname)
    \/ \E c \in EntrantConns, perm \in Shuffles : StartTournament(c, 1, perm)
    \/ \E l \in launching : StartMatchResume(l)

ASpec == Init /\ [][ANext]_vars

\* ---------------------------------------------------------------------------
\* State requests: the membership handlers of CNext and get_state.
\* ---------------------------------------------------------------------------
SNext ==
    \/ CNext
    \/ \E c \in MemberConns : GetState(c)

SSpec == Init /\ [][SNext]_vars

\* ---------------------------------------------------------------------------
\* Play: the lobby of Next with the paddle messages of the players.
\* ---------------------------------------------------------------------------
PNext ==
    \/ Next
    \/ \E c \in LobbyConns, y \in PaddleInputs : GameUpdate(c, y)

PSpec == Init /\ [][PNext]_vars

\* ---------------------------------------------------------------------------
\* The ball: one paired running game whose frames move the ball, with the
\* paddle messages of its two players.
\* ---------------------------------------------------------------------------
BallRounds == {1, 3}
BallDx == {0 - 390, 0 - 195, 195, 390}
BallDy == {0 - 215, 0, 215}
BallConns == {1, 2}
BInit == \E rounds \in BallRounds : PairedInit(rounds)

BNext ==
    \/ \E r \in Rooms, dx \in BallDx, dy \in BallDy : Tick(r, dx, dy)
    \/ \E c \in BallConns, y \in PaddleInputs : GameUpdate(c, y)
    \/ \E r \in Rooms : GameSyncLoop(r)
    \/ \E r \in Rooms : DelayedCleanup(r)

BSpec == BInit /\ [][BNext]_vars

\* ================================================================ claims
\* bracket nodes of T that hold a winner
WinnerNodes(T) == {i \in 1..Len(T.matches) : T.matches[i].winner # 0}

\* C1: a started tournament of size 4, 6 or 8 in which nobody has left and
\* every launched match has ended with its result recorded (no match is
\* current, no delayed_advance is pending) is complete: its winner is set and
\* exactly size - 1 bracket nodes hold a winner.
C1_CompletesWithAllNodes ==
    \A tid \in DOMAIN active_tournaments :
        (/\ active_tournaments[tid].started
         /\ Len(active_tournaments[tid].players) = active_tournaments[tid].size
         /\ active_tournaments[tid].current_match = 0
         /\ advance_tasks[tid] = 0)
        => (/\ active_tournaments[tid].winner # 0
            /\ Cardinality(WinnerNodes(active_tournaments[tid]))
                  = active_tournaments[tid].size - 1)

\* the slots of node m that hold nickname
SlotsOf(m, nickname) ==
    {s \in {"player1", "player2"} : m[s] = nickname}

\* the completed nodes of T whose winner goes to node k
Feeders(T, k) ==
    {i \in WinnerNodes(T) :
        /\ T.matches[i].next_match # <<>>
        /\ FindMatch(T.matches, T.matches[i].next_match[1],
                     T.matches[i].next_match[2]) = k}

\* C2: propagation law. In a started tournament every node with a winner and a
\* next pointer has its winner's nickname in exactly one slot of the next node,
\* and two such nodes never hold the same slot of the same next node.
C2_PropagationLaw ==
    \A tid \in DOMAIN active_tournaments :
        \A k \in 1..Len(active_tournaments[tid].matches) :
            \A i \in Feeders(active_tournaments[tid], k) :
                /\ Cardinality(SlotsOf(active_tournaments[tid].matches[k],
                                       active_tournaments[tid].matches[i].winner)) = 1
                /\ \A j \in Feeders(active_tournaments[tid], k) \ {i} :
                      SlotsOf(active_tournaments[tid].matches[k],
                              active_tournaments[tid].matches[j].winner)
                      # SlotsOf(active_tournaments[tid].matches[k],
                                active_tournaments[tid].matches[i].winner)

\* the root nodes of T: the nodes with no next pointer
Roots(T) == {i \in 1..Len(T.matches) : T.matches[i].next_match = <<>>}

\* C3: a tournament's winner is set only if the root node has a winner, and
\* then it is the root node's winner, also after entrants have gone.
C3_WinnerIsRootWinner ==
    \A tid \in DOMAIN active_tournaments :
        active_tournaments[tid].winner # 0
        => /\ Roots(active_tournaments[tid]) # {}
           /\ \A i \in Roots(active_tournaments[tid]) :
                 active_tournaments[tid].matches[i].winner
                    = active_tournaments[tid].winner

\* the engine has ended the Match of node m and declared channel's side winner
EngineDeclared(m, channel) ==
    /\ Get(active_games, channel) \in DOMAIN gm_active_games
    /\ LET g == gm_active_games[Get(active_games, channel)]
       IN /\ g.left_player = m.player1_channel
          /\ g.right_player = m.player2_channel
          /\ ~g.is_running
          /\ \/ g.winner = "left" /\ g.left_player = channel
             \/ g.winner = "right" /\ g.right_player = channel

\* this step records the winner of node i of tournament tid as a played result:
\* no entrant goes in the step
PlayedResult(tid, i) ==
    /\ tid \in DOMAIN active_tournaments'
    /\ Len(active_tournaments'[tid].players) = Len(active_tournaments[tid].players)
    /\ active_tournaments[tid].matches[i].winner = 0
    /\ Len(active_tournaments'[tid].matches) = Len(active_tournaments[tid].matches)
    /\ active_tournaments'[tid].matches[i].winner # 0

\* the connection in node m under nickname
ChannelOf(m, nickname) ==
    IF m.player1 = nickname THEN m.player1_channel ELSE m.player2_channel

\* C4: the result of a tournament match is server-authoritative. Every step
\* that records a node's winner as a played result does so after the engine has
\* ended the Match launched for that node, and records the connection on the
\* side the engine declared winner, whoever sent game_over and whenever.
C4_ServerAuthoritative ==
    [][\A tid \in DOMAIN active_tournaments :
          \A i \in 1..Len(active_tournaments[tid].matches) :
             PlayedResult(tid, i)
             => EngineDeclared(active_tournaments[tid].matches[i],
                               ChannelOf(active_tournaments[tid].matches[i],
                                         active_tournaments'[tid].matches[i].winner))]_vars

\* the running Matches launched for nodes of T: a node's connections sit in
\* the slots start_tournament_match gave them, as long as they are attached
RunningMatches(T) ==
    {r \in DOMAIN gm_active_games :
        /\ gm_active_games[r].is_running
        /\ \E i \in 1..Len(T.matches) :
              /\ T.matches[i].player1_channel # 0
              /\ T.matches[i].player2_channel # 0
              /\ \/ T.matches[i].player1_channel = gm_active_games[r].left_player
                 \/ T.matches[i].player2_channel = gm_active_games[r].right_player}

\* C5: serial execution. A started tournament has at most one ACTIVE node (its
\* current match is one node of the bracket or none), and at most one Match
\* launched for it is running.
C5_SerialExecution ==
    \A tid \in DOMAIN active_tournaments :
        active_tournaments[tid].started
        => /\ active_tournaments[tid].current_match
                 \in 0..Len(active_tournaments[tid].matches)
           /\ Cardinality(RunningMatches(active_tournaments[tid])) <= 1

\* channel c occupies a slot of the ACTIVE node of tournament tid
InActiveNode(c, tid) ==
    /\ tid \in DOMAIN active_tournaments
    /\ active_tournaments[tid].started
    /\ active_tournaments[tid].current_match # 0
    /\ c \in {active_tournaments[tid].matches[
                  active_tournaments[tid].current_match].player1_channel,
              active_tournaments[tid].matches[
                  active_tournaments[tid].current_match].player2_channel}

\* this step is c's disconnect, or an answered leave_tournament of c
Departs(c) ==
    \/ c \in connected /\ c \notin connected'
    \/ \E k \in 1..Len(sent') :
          /\ sent'[k].type = "tournament_left"
          /\ sent'[k].to = {c}
          /\ sent'[k].data = "left"

\* after the step, node i of tournament tid (where c sat in node m) is forfeited
\* to the opposite slot, and the remaining entrants are told
Forfeited(c, tid, i, m, T2) ==
    /\ c \notin PlayerChannels(T2)
    /\ T2.matches[i].winner = (IF m.player1_channel = c THEN m.player2
                               ELSE m.player1)
    /\ i \in Roots(T2) \/ \E k \in 1..Len(T2.matches) :
          /\ i \in Feeders(T2, k)
          /\ SlotsOf(T2.matches[k], T2.matches[i].winner) # {}
    /\ \E k \in 1..Len(sent') :
          /\ sent'[k].type = "tournament_update"
          /\ sent'[k].to = PlayerChannels(T2)
          /\ sent'[k].data.matches[i].winner = T2.matches[i].winner

\* C6: forfeit. When a player in a slot of the ACTIVE node disconnects or leaves
\* the tournament, that player is no entrant any more, the opposite slot is the
\* node's winner and is written into the next node, and the tournament_update
\* sent to the remaining entrants shows that winner.
C6_Forfeit ==
    [][\A c \in Conns, tid \in DOMAIN active_tournaments :
          (InActiveNode(c, tid) /\ Departs(c)
           /\ tid \in DOMAIN active_tournaments')
          => Forfeited(c, tid, active_tournaments[tid].current_match,
                       active_tournaments[tid].matches[
                           active_tournaments[tid].current_match],
                       active_tournaments'[tid])]_vars

\* the connections of the entrants whose nickname is T's winner
WinnerChannels(T) ==
    {T.players[i].channel :
        i \in {j \in 1..Len(T.players) : T.players[j].nickname = T.winner}}

\* the frames of the step tell T2's entrants that T2 is complete
Announced(T2, frames) ==
    /\ \A ch \in WinnerChannels(T2) :
          \E k \in 1..Len(frames) :
             frames[k].type = "tournament_victory" /\ ch \in frames[k].to
    /\ \A ch \in PlayerChannels(T2) \ WinnerChannels(T2) :
          \E k \in 1..Len(frames) :
             /\ frames[k].type = "tournament_complete"
             /\ ch \in frames[k].to
             /\ frames[k].data = T2.winner
    /\ \A ch \in PlayerChannels(T2) :
          \E k \in 1..Len(frames) :
             /\ frames[k].type = "tournament_update"
             /\ ch \in frames[k].to
             /\ frames[k].data.winner = T2.winner

\* C7: whenever a tournament becomes complete, by a played match or by a
\* forfeit, the winner's connection is sent tournament_victory, every other
\* entrant tournament_complete with the winner's nickname, and every entrant a
\* tournament_update whose winner field is that nickname.
C7_CompletionAnnounced ==
    [][\A tid \in DOMAIN active_tournaments :
          (/\ tid \in DOMAIN active_tournaments'
           /\ active_tournaments[tid].winner = 0
           /\ active_tournaments'[tid].winner # 0)
          => Announced(active_tournaments'[tid], sent')]_vars

\* C8: the LEFT and RIGHT slots of a running Match hold two different
\* connections: no sequence of join messages pairs a connection with itself.
C8_DistinctSlots ==
    \A r \in DOMAIN gm_active_games :
        gm_active_games[r].is_running
        => gm_active_games[r].left_player # gm_active_games[r].right_player

\* C9: a Match whose running flag is true has both slots occupied.
C9_RunningHasBothSlots ==
    \A r \in DOMAIN gm_active_games :
        gm_active_games[r].is_running
        => /\ gm_active_games[r].left_player # 0
           /\ gm_active_games[r].right_player # 0

\* the queue entries of connection c
QueueEntries(c) ==
    {i \in 1..Len(waiting_players) : waiting_players[i].channel = c}

\* C10: each connection has at most one entry in the waiting queue.
C10_OneQueueEntry ==
    \A c \in Conns : Cardinality(QueueEntries(c)) <= 1

\* channel c has an entry in the waiting queue
InQueue(c) == \E i \in 1..Len(waiting_players) : waiting_players[i].channel = c

\* the Match of room r was launched for a node of a tournament
IsTournamentMatch(r) ==
    \E tid \in DOMAIN active_tournaments :
        r \in RunningMatches(active_tournaments[tid])

\* channel c sits in a slot of a live (running) regular Match
InRegularMatch(c) ==
    \E r \in DOMAIN gm_active_games :
        /\ gm_active_games[r].is_running
        /\ ~IsTournamentMatch(r)
        /\ c \in {gm_active_games[r].left_player, gm_active_games[r].right_player}

\* channel c sits in a slot of a live (running) tournament Match
InTournamentMatch(c) ==
    \E r \in DOMAIN gm_active_games :
        /\ gm_active_games[r].is_running
        /\ IsTournamentMatch(r)
        /\ c \in {gm_active_games[r].left_player, gm_active_games[r].right_player}

\* C11: a connection is in at most one of: the waiting queue, a slot of a live
\* regular Match, a slot of a live tournament Match.
C11_OneMembership ==
    \A c \in Conns :
        /\ ~(InQueue(c) /\ InRegularMatch(c))
        /\ ~(InQueue(c) /\ InTournamentMatch(c))
        /\ ~(InRegularMatch(c) /\ InTournamentMatch(c))

\* the waiting entries with rounds r, by index
Bucket(r) == {i \in 1..Len(waiting_players) : waiting_players[i].rounds = r}

\* the Matches this step creates
NewMatches == (DOMAIN gm_active_games') \ (DOMAIN gm_active_games)

\* what a join of c with rounds r must do: pair c with the oldest entry of its
\* bucket and remove that entry, or append c at the tail
JoinOutcome(c, r) ==
    IF Bucket(r) # {}
    THEN /\ waiting_players' = RemoveAt(waiting_players, Least(Bucket(r)))
         /\ \E room \in NewMatches :
               /\ gm_active_games'[room].left_player
                     = waiting_players[Least(Bucket(r))].channel
               /\ gm_active_games'[room].right_player = c
               /\ gm_active_games'[room].target_rounds = r
    ELSE /\ waiting_players'
               = Append(waiting_players,
                        [channel |-> c, nickname |-> c, rounds |-> r])
         /\ NewMatches = {}

\* C12: bucketed FIFO pairing. A join with rounds r is paired in its own step
\* with the oldest waiting entry of rounds r if there is one (the entry is
\* removed, the caller is not enqueued), otherwise the caller is appended at
\* the tail; so the queue never holds two entries with equal rounds.
C12_BucketedFifo ==
    /\ [](\A r \in RoundsChoices : Cardinality(Bucket(r)) <= 1)
    /\ [][\A c \in Conns, r \in RoundsChoices :
             Join(c, c, r) => JoinOutcome(c, r)]_vars

\* a join has paired two connections while an entry of another bucket waits
C12_Witness ==
    \E room \in DOMAIN gm_active_games :
        /\ gm_active_games[room].left_player # gm_active_games[room].right_player
        /\ gm_active_games[room].left_player # 0
        /\ gm_active_games[room].right_player # 0
        /\ \E i \in 1..Len(waiting_players) :
              /\ waiting_players[i].rounds # gm_active_games[room].target_rounds
              /\ waiting_players[i].channel
                    \notin {gm_active_games[room].left_player,
                            gm_active_games[room].right_player}

\* the start_game frames of this step, by index
StartFrames == {k \in 1..Len(sent') : sent'[k].type = "start_game"}

\* the start_game frames of this step that tell channel its side of room
StartFramesFor(channel, room, side) ==
    {k \in StartFrames :
        /\ sent'[k].to = {channel}
        /\ sent'[k].data.room = room
        /\ sent'[k].data.player_side = side}

\* the pairing of caller c with waiter w for r rounds: one new started Match,
\* w left and c right, one start_game frame for each side
Paired(w, c, r) ==
    /\ Cardinality(NewMatches) = 1
    /\ \A room \in NewMatches :
          /\ gm_active_games'[room].target_rounds = r
          /\ gm_active_games'[room].left_player = w
          /\ gm_active_games'[room].right_player = c
          /\ gm_active_games'[room].is_running
          /\ Cardinality(StartFramesFor(w, room, "left")) = 1
          /\ Cardinality(StartFramesFor(c, room, "right")) = 1
          /\ Cardinality(StartFrames) = 2

\* C13: when a join pairs the caller with a prior waiter, exactly one new Match
\* is created with the requested rounds, the waiter is attached LEFT and the
\* caller RIGHT, the Match is started, and the waiter is sent one start_game
\* frame with side left and the caller one with side right, same room.
C13_PairingCreatesMatch ==
    [][\A c \in Conns, r \in RoundsChoices :
          (Join(c, c, r) /\ Bucket(r) # {})
          => Paired(waiting_players[Least(Bucket(r))].channel, c, r)]_vars

\* the last step paired two different connections
C13_Witness ==
    \E k \in 1..Len(sent), room \in DOMAIN gm_active_games :
        /\ sent[k].type = "start_game"
        /\ sent[k].data.room = room
        /\ gm_active_games[room].is_running
        /\ gm_active_games[room].left_player # gm_active_games[room].right_player
        /\ sent[k].to = {gm_active_games[room].right_player}
        /\ sent[k].data.player_side = "right"

\* d and o are the two players of the running Match of room
PlayTogether(d, o, room) ==
    /\ room \in DOMAIN gm_active_games
    /\ gm_active_games[room].is_running
    /\ d # o /\ d # 0 /\ o # 0
    /\ {gm_active_games[room].left_player, gm_active_games[room].right_player}
          = {d, o}

\* after the step the Match of room has terminated without a winner
TerminatedWithoutWinner(room) ==
    \/ room \notin DOMAIN gm_active_games'
    \/ /\ ~gm_active_games'[room].is_running
       /\ gm_active_games'[room].winner = "none"

\* after the step channel o is associated with no match
Idle(o) ==
    /\ o \notin DOMAIN active_games'
    /\ o \notin DOMAIN gm_player_games'
    /\ \A room \in DOMAIN gm_active_games' :
          o \notin {gm_active_games'[room].left_player,
                    gm_active_games'[room].right_player}

\* C14: when one of the two players of a running Match disconnects, the
\* remaining player is sent opponent_left, the Match terminates without a
\* winner and the remaining connection is associated with no match; and no
\* game_over frame goes to a connection that is associated with no match.
C14_OpponentLeft ==
    [][/\ \A d \in Conns, o \in Conns, room \in Rooms :
             (PlayTogether(d, o, room) /\ o \in connected
              /\ d \in connected /\ d \notin connected')
             => /\ \E k \in 1..Len(sent') :
                      sent'[k].type = "opponent_left" /\ o \in sent'[k].to
                /\ TerminatedWithoutWinner(room)
                /\ Idle(o)
       /\ \A k \in 1..Len(sent') :
             sent'[k].type = "game_over"
             => \A ch \in sent'[k].to : ch \in DOMAIN active_games]_vars

\* after the step, channel c belongs to nothing: no queue entry, no slot of a
\* registered Match, no entrant list, no entry in either index map
CleanedUp(c) ==
    /\ \A i \in 1..Len(waiting_players') : waiting_players'[i].channel # c
    /\ \A room \in DOMAIN gm_active_games' :
          c \notin {gm_active_games'[room].left_player,
                    gm_active_games'[room].right_player}
    /\ \A tid \in DOMAIN active_tournaments' :
          c \notin PlayerChannels(active_tournaments'[tid])
    /\ c \notin DOMAIN active_games'
    /\ c \notin DOMAIN tournament_players'

\* C15: cascading cleanup. Once the disconnect of connection c has been
\* handled, c has no waiting-queue entry, sits in no slot of a registered
\* Match, is in no tournament's entrant list and in neither index map,
\* whatever c sent before.
C15_CascadingCleanup ==
    [][\A c \in Conns :
          (c \in connected /\ c \notin connected') => CleanedUp(c)]_vars

\* ceil(n / 2) for a natural n
CeilHalf(n) == (n + 1) \div 2

\* the score of the side that won g, and of the other side
WinnerScore(g) == IF g.winner = "left" THEN g.left_score ELSE g.right_score
LoserScore(g) == IF g.winner = "left" THEN g.right_score ELSE g.left_score

\* C16: for every positive target_rounds, odd or even, a Match has a winner
\* exactly from the first tick in which a side's score reaches
\* ceil(target_rounds / 2): an ended Match's winner has exactly that score and
\* the other side less, and while there is no winner both sides have less.
C16_WinningThreshold ==
    \A room \in DOMAIN gm_active_games :
        IF gm_active_games[room].winner # "none"
        THEN /\ WinnerScore(gm_active_games[room])
                   = CeilHalf(gm_active_games[room].target_rounds)
             /\ LoserScore(gm_active_games[room])
                   < CeilHalf(gm_active_games[room].target_rounds)
             /\ ~gm_active_games[room].is_running
        ELSE /\ gm_active_games[room].left_score
                   < CeilHalf(gm_active_games[room].target_rounds)
             /\ gm_active_games[room].right_score
                   < CeilHalf(gm_active_games[room].target_rounds)

\* a Match of 5 rounds has ended 3 to 2
C16_Witness ==
    \E room \in DOMAIN gm_active_games :
        /\ gm_active_games[room].target_rounds = 5
        /\ gm_active_games[room].winner = "right"
        /\ gm_active_games[room].right_score = 3
        /\ gm_active_games[room].left_score = 2

\* the engine has ended the Match of room with winner side w and score sc
EndedWith(room, w, sc) ==
    /\ room \in DOMAIN gm_active_games
    /\ gm_active_games[room].winner = w
    /\ WinnerScore(gm_active_games[room]) = sc

\* the last step sent both players a game_over frame with winner w, score sc
GameOverSent(players, w, sc) ==
    \E k \in 1..Len(sent) :
        /\ sent[k].type = "game_over"
        /\ players \subseteq sent[k].to
        /\ sent[k].data.winner = w
        /\ sent[k].data.score = sc

\* C17: if the running Match of connections 1 and 2 ends with a winner while
\* both stay connected, then whatever the order of the simulation worker, the
\* snapshot emitter and the delayed disposal, both players are eventually sent
\* a game_over frame with the engine's winner side and that side's score.
C17_GameOverDelivered ==
    \A w \in Sides, sc \in 0..MaxTargetRounds :
        [](EndedWith(1, w, sc) => <>GameOverSent({1, 2}, w, sc))

\* the Match of room has ended: it is registered and has a winner
Ended(room) ==
    /\ room \in DOMAIN gm_active_games
    /\ gm_active_games[room].winner # "none"

\* this step leaves the ended Match of room as it ended, or disposes of it
StaysEnded(room) ==
    room \in DOMAIN gm_active_games'
    => /\ ~gm_active_games'[room].is_running
       /\ gm_active_games'[room].winner = gm_active_games[room].winner
       /\ gm_active_games'[room].left_score = gm_active_games[room].left_score
       /\ gm_active_games'[room].right_score = gm_active_games[room].right_score

\* this step is the win of the Match of room: the engine clears the running
\* flag, sets the winner and calls on_game_over
WinStep(room) ==
    /\ room \in DOMAIN gm_active_games
    /\ gm_active_games[room].winner = "none"
    /\ room \in DOMAIN gm_active_games'
    /\ gm_active_games'[room].winner # "none"

\* C18: a Match's lifecycle is one-way. On a win the engine clears the
\* running flag and calls the on-game-over callback; after that no Game
\* Manager operation makes the Match run again or changes its winner or scores;
\* and a room that is not registered is never started.
C18_OneWayLifecycle ==
    [][\A room \in Rooms :
          /\ WinStep(room) => /\ ~gm_active_games'[room].is_running
                              /\ room \in cleanup_threads'
          /\ Ended(room) => StaysEnded(room)
          /\ (room \notin DOMAIN gm_active_games
              /\ room \in DOMAIN gm_active_games')
             => ~gm_active_games'[room].is_running]_vars
\* the frames of this step are one tournament_error, sent to c alone
OneTournamentError(c) ==
    /\ Len(sent') = 1
    /\ sent'[1].type = "tournament_error"
    /\ sent'[1].to = {c}

\* tournament 1 cannot be started according to the specification: it is
\* started already, or its entrants are not as many as its declared size, or
\* they are not 4, 6 or 8
NotStartable ==
    /\ 1 \in DOMAIN active_tournaments
    /\ \/ active_tournaments[1].started
       \/ Len(active_tournaments[1].players) # active_tournaments[1].size
       \/ Len(active_tournaments[1].players) \notin {4, 6, 8}

\* C19: start_tournament is rejected with one tournament_error to the caller
\* and leaves the tournament as it was (not started by this message, no
\* bracket built) whenever the tournament is started already, or its entrants
\* are not as many as its declared size, or they are not 4, 6 or 8.
C19_StartRejected ==
    [][\A c \in EntrantConns, perm \in Shuffles :
          (NotStartable /\ StartTournament(c, 1, perm))
          => /\ OneTournamentError(c)
             /\ active_tournaments' = active_tournaments]_vars
\* the channels and the nicknames of the entrants of tournament T
EntrantChannels(T) == {T.players[i].channel : i \in 1..Len(T.players)}
EntrantNicknames(T) == {T.players[i].nickname : i \in 1..Len(T.players)}

\* join_tournament of c under nickname is to be rejected by tournament 1
NotJoinable(c, nickname) ==
    /\ 1 \in DOMAIN active_tournaments
    /\ \/ active_tournaments[1].started
       \/ nickname \in EntrantNicknames(active_tournaments[1])
       \/ c \in EntrantChannels(active_tournaments[1])
       \/ Len(active_tournaments[1].players) >= active_tournaments[1].size

\* the entrants of T are no more than its size, under different nicknames and
\* on different connections
SoundEntrants(T) ==
    /\ Len(T.players) <= T.size
    /\ Cardinality(EntrantChannels(T)) = Len(T.players)
    /\ Cardinality(EntrantNicknames(T)) = Len(T.players)

\* C20: join_tournament is rejected when the tournament is started, when the
\* nickname is that of an entrant, when the caller's connection is an entrant
\* already, or when the entrants have reached the declared size; the caller
\* then gets exactly one tournament_error and the entrants, the
\* connection-to-tournament index and the bracket stay as they were. So the
\* entrant list never grows after the start, never exceeds the size and never
\* holds a nickname or a connection twice.
C20_JoinRejected ==
    /\ [][\A c \in EntrantConns : \A nickname \in Aliases(c) :
             (NotJoinable(c, nickname) /\ JoinTournament(c, 1, nickname))
             => /\ OneTournamentError(c)
                /\ active_tournaments' = active_tournaments
                /\ tournament_players' = tournament_players]_vars
    /\ [](\A tid \in DOMAIN active_tournaments :
             SoundEntrants(active_tournaments[tid]))
    /\ [][\A tid \in DOMAIN active_tournaments :
             (active_tournaments[tid].started
              /\ tid \in DOMAIN active_tournaments')
             => Len(active_tournaments'[tid].players)
                   <= Len(active_tournaments[tid].players)]_vars

\* a connection that is no entrant has just been turned away by a full
\* tournament that is not started
C20_Witness ==
    /\ Len(sent) = 1
    /\ sent[1].type = "tournament_error"
    /\ sent[1].data = "Cannot join"
    /\ 1 \in DOMAIN active_tournaments
    /\ ~active_tournaments[1].started
    /\ Len(active_tournaments[1].players) = active_tournaments[1].size
    /\ sent[1].to \cap EntrantChannels(active_tournaments[1]) = {}
    /\ sent[1].to \cap DOMAIN tournament_players = {}
\* this step turns the started flag of tournament tid from false to true
BecomesStarted(tid) ==
    /\ tid \in DOMAIN active_tournaments
    /\ tid \in DOMAIN active_tournaments'
    /\ ~active_tournaments[tid].started
    /\ active_tournaments'[tid].started

\* C21: only the creator's connection can start a tournament. A
\* start_tournament from any other connection, entrant or not, is answered with
\* one tournament_error and leaves the tournament as it was; and the started
\* flag of a tournament becomes true only in a step that handles the
\* start_tournament of its creator.
C21_CreatorOnly ==
    /\ [][\A c \in EntrantConns, perm \in Shuffles :
             (/\ 1 \in DOMAIN active_tournaments
              /\ c # active_tournaments[1].creator_channel
              /\ StartTournament(c, 1, perm))
             => /\ OneTournamentError(c)
                /\ active_tournaments' = active_tournaments]_vars
    /\ [][\A tid \in TIds :
             BecomesStarted(tid)
             => \E perm \in Shuffles :
                   StartTournament(active_tournaments[tid].creator_channel,
                                   tid, perm)]_vars

\* an entrant who is not the creator has just been refused the start of a
\* tournament that its creator could start
C21_Witness ==
    /\ Len(sent) = 1
    /\ sent[1].type = "tournament_error"
    /\ sent[1].data = "Only the creator"
    /\ 1 \in DOMAIN active_tournaments
    /\ ~active_tournaments[1].started
    /\ Len(active_tournaments[1].players) = 4
    /\ sent[1].to \subseteq EntrantChannels(active_tournaments[1])
    /\ sent[1].to # {active_tournaments[1].creator_channel}
\* the nodes of round r of the bracket matches
RoundNodes(matches, r) == {i \in 1..Len(matches) : matches[i].round = r}

\* the nicknames that hold a slot of a node of round r
RoundNicknames(matches, r) ==
    UNION {{matches[i].player1, matches[i].player2} \ {0} :
              i \in RoundNodes(matches, r)}

\* the bracket as the specification describes it for 6 entrants: 3 first-round
\* matches, and the entrants that play no first-round match stand in round-2
\* slots although no match has a winner yet
SixPlayerBracket(T) ==
    /\ Cardinality(RoundNodes(T.matches, 0)) = 3
    /\ EntrantNicknames(T) \ RoundNicknames(T.matches, 0) # {}
    /\ EntrantNicknames(T) \ RoundNicknames(T.matches, 0)
          \subseteq RoundNicknames(T.matches, 1)
    /\ \A i \in 1..Len(T.matches) : T.matches[i].winner = 0

\* C22: when a tournament with 6 entrants is started, the bracket has 3
\* first-round matches, one of which supplies a bye slot, and each bye-advanced
\* player is placed directly into a round-2 slot at the start, not as the
\* result of a match.
C22_SixPlayerByes ==
    [][(BecomesStarted(1) /\ Len(active_tournaments[1].players) = 6)
       => SixPlayerBracket(active_tournaments'[1])]_vars
\* tournament T is left behind by c: it has no entrant, or it is not started
\* and c, who is gone, is its creator
Abandoned(T, c) ==
    \/ T.players = <<>>
    \/ ~T.started /\ T.creator_channel = c

\* c, the creator of the unstarted tournament tid, goes: the tournament is
\* removed, every other entrant is sent tournament_left and loses its
\* connection-to-tournament entry
CreatorGone(c, tid) ==
    /\ tid \notin DOMAIN active_tournaments'
    /\ \A d \in PlayerChannels(active_tournaments[tid]) \ {c} :
          /\ \E k \in 1..Len(sent') :
                sent'[k].type = "tournament_left" /\ d \in sent'[k].to
          /\ d \notin DOMAIN tournament_players'

\* C23: a tournament is removed from the registry when its entrant list
\* becomes empty and when its creator leaves or disconnects before the start
\* (each remaining entrant is then sent tournament_left and loses its
\* connection-to-tournament entry); no leave or disconnect ends with an empty
\* or creator-abandoned unstarted tournament still registered.
C23_Disposal ==
    [][\A c \in Conns :
          /\ Disconnect(c)
             => \A tid \in DOMAIN active_tournaments' :
                   ~Abandoned(active_tournaments'[tid], c)
          /\ (LeaveTournament(c) \/ Disconnect(c))
             => \A tid \in DOMAIN active_tournaments :
                   (/\ Get(tournament_players, c) = tid
                    /\ active_tournaments[tid].creator_channel = c
                    /\ ~active_tournaments[tid].started)
                   => CreatorGone(c, tid)
          /\ LeaveTournament(c)
             => \A tid \in DOMAIN active_tournaments' :
                   Get(tournament_players, c) = tid
                   => ~Abandoned(active_tournaments'[tid], c)]_vars
\* the step that led to this state handled a join of c that enqueued it: c was
\* answered with the queue_update of the enqueue branch and holds the last
\* entry of the waiting list
JustEnqueued(c) ==
    /\ Len(sent) >= 1
    /\ sent[1].type = "queue_update"
    /\ sent[1].to = {c}
    /\ sent[1].data # 0
    /\ waiting_players # <<>>
    /\ waiting_players[Len(waiting_players)].channel = c

\* the waiting list before the join that appended its last entry
BeforeJoin == SubSeq(waiting_players, 1, Len(waiting_players) - 1)

\* C24: round trip. From any reachable state, a join that enqueues its sender,
\* followed at once by leave_queue from the same connection, leaves the
\* waiting list, and so the lobby snapshot that is broadcast, as they were
\* before the join.
C24_JoinLeaveRoundTrip ==
    [][\A c \in LobbyConns :
          (JustEnqueued(c) /\ LeaveQueue(c))
          => /\ waiting_players' = BeforeJoin
             /\ WaitingList(waiting_players') = WaitingList(BeforeJoin)]_vars
\* the step that led to this state sent c the lobby snapshot: the waiting list
\* to c alone, then the tournament list
SnapshotSent(c) ==
    /\ Len(sent) >= 2
    /\ sent[1].type = "waiting_list"
    /\ sent[1].to = {c}
    /\ sent[2].type = "tournament_list"

\* C25: get_state has no side effect and is idempotent. Handling it leaves
\* the waiting queue, every Match (slots, scores, paddles, running flag,
\* winner), every tournament and both index maps as they were, and a request
\* that follows a request with nothing in between returns the same lobby
\* snapshot.
C25_GetStatePure ==
    /\ [][\A c \in MemberConns :
             GetState(c)
             => UNCHANGED <<waiting_players, gm_active_games, gm_player_games,
                            active_tournaments, active_games,
                            tournament_players>>]_vars
    /\ [][\A c \in MemberConns :
             (SnapshotSent(c) /\ GetState(c))
             => /\ sent'[1] = sent[1]
                /\ sent'[2] = sent[2]]_vars

\* get_state has just been answered to a connection that is in a Match and in
\* a tournament: four frames, the last two for the sender alone
C25_Witness ==
    /\ Len(sent) = 4
    /\ SnapshotSent(Least(sent[1].to))
    /\ sent[3].type = "tournament_update"
    /\ sent[4].type = "game_state_update"
    /\ sent[4].to = sent[1].to
    /\ sent[1].to \subseteq DOMAIN gm_player_games
    /\ sent[1].to \subseteq DOMAIN tournament_players
\* this step sends the lobby subscribers a frame of the given type that
\* carries data
Broadcast(type, data) ==
    \E k \in 1..Len(sent') :
        /\ sent'[k].type = type
        /\ sent'[k].data = data
        /\ lobby' \subseteq sent'[k].to

\* this step leaves a match launch suspended that broadcasts the tournament
\* list when it resumes
BroadcastPending ==
    \E l \in launching' : l.then = "broadcast_tournament_list"

\* C26: lobby broadcast. Every handled message or disconnect that changes the
\* waiting list, or a listed attribute of a tournament (existence, player
\* count, started flag, presence of an active match), sends all lobby
\* subscribers a waiting_list or tournament_list frame built from the state
\* after the change, at the latest when the match launch it suspended resumes.
C26_LobbyBroadcast ==
    [][/\ WaitingList(waiting_players') # WaitingList(waiting_players)
          => Broadcast("waiting_list", WaitingList(waiting_players'))
       /\ TournamentList(active_tournaments') # TournamentList(active_tournaments)
          => \/ Broadcast("tournament_list", TournamentList(active_tournaments'))
             \/ BroadcastPending]_vars
\* y clamped to the interval in which a paddle can stand
Clamped(y) == Max(0, Min(height - paddle_height, y))

\* what the paddle message y of c does to the Match of room according to the
\* specification: each side that c holds stores the clamped value, any other
\* side keeps its paddle
PaddleStored(room, c, y) ==
    /\ room \in DOMAIN gm_active_games'
    /\ gm_active_games'[room].left_paddle_y =
          IF gm_active_games[room].left_player = c THEN Clamped(y)
          ELSE gm_active_games[room].left_paddle_y
    /\ gm_active_games'[room].right_paddle_y =
          IF gm_active_games[room].right_player = c THEN Clamped(y)
          ELSE gm_active_games[room].right_paddle_y

\* C27: paddle input. For any game_update value the stored paddle y of the
\* sender's own side is the value clamped to [0, height - paddle_height], the
\* other side's paddle is unchanged, a game_update from a connection that
\* holds no slot changes no paddle of any Match, and in every reachable state
\* both paddles stand within that interval.
C27_PaddleClamped ==
    /\ [][\A c \in LobbyConns, y \in PaddleInputs :
             GameUpdate(c, y)
             => \A room \in DOMAIN gm_active_games : PaddleStored(room, c, y)]_vars
    /\ [](\A room \in DOMAIN gm_active_games :
             /\ gm_active_games[room].left_paddle_y \in 0..(height - paddle_height)
             /\ gm_active_games[room].right_paddle_y \in 0..(height - paddle_height))
\* the sum of the two scores of game g
ScoreSum(g) == g.left_score + g.right_score

\* C28: across the successive snapshots of one Match the sum of the two scores
\* never decreases, neither score decreases, and one tick raises the sum by at
\* most one.
C28_ScoresMonotone ==
    [][\A room \in DOMAIN gm_active_games \cap DOMAIN gm_active_games' :
          /\ gm_active_games'[room].left_score >= gm_active_games[room].left_score
          /\ gm_active_games'[room].right_score >= gm_active_games[room].right_score
          /\ ScoreSum(gm_active_games'[room]) >= ScoreSum(gm_active_games[room])
          /\ ScoreSum(gm_active_games'[room])
                <= ScoreSum(gm_active_games[room]) + 1]_vars

\* both players of a running Match have scored
C28_Witness ==
    \E room \in DOMAIN gm_active_games :
        /\ gm_active_games[room].is_running
        /\ gm_active_games[room].left_score = 1
        /\ gm_active_games[room].right_score = 1

\* the ball of game g is inside the arena
BallInside(g) ==
    /\ ball_radius <= g.ball_x /\ g.ball_x <= width - ball_radius
    /\ ball_radius <= g.ball_y /\ g.ball_y <= height - ball_radius

\* C29: after every tick the ball centre satisfies r <= x <= width - r and
\* r <= y <= height - r, and a tick in which a point is scored leaves the ball
\* at the centre of the arena (width/2, height/2).
C29_BallInside ==
    /\ [](\A room \in DOMAIN gm_active_games : BallInside(gm_active_games[room]))
    /\ [][\A room \in DOMAIN gm_active_games \cap DOMAIN gm_active_games' :
             ScoreSum(gm_active_games'[room]) # ScoreSum(gm_active_games[room])
             => /\ gm_active_games'[room].ball_x = width \div 2
                /\ gm_active_games'[room].ball_y = height \div 2]_vars

\* after a point was scored the ball stands at the left limit r of x and at
\* the lower limit height - r of y
C29_Witness ==
    \E room \in DOMAIN gm_active_games :
        /\ ScoreSum(gm_active_games[room]) > 0
        /\ gm_active_games[room].ball_x = ball_radius
        /\ gm_active_games[room].ball_y = height - ball_radius
\* this step makes node k the current match of tournament tid
BecomesActive(tid, k) ==
    /\ tid \in DOMAIN active_tournaments
    /\ tid \in DOMAIN active_tournaments'
    /\ k \in 1..Len(active_tournaments'[tid].matches)
    /\ active_tournaments'[tid].current_match = k
    /\ active_tournaments[tid].current_match # k

\* after this step a Match stands for node m of a tournament with the given
\* rounds: the first slot holds LEFT, the second RIGHT, and its launch is under
\* way (the handler is in the sleep before start_game, then sends start_game
\* with is_tournament = true to both) or the Match runs already
MatchLaunched(tid, m, rounds) ==
    \E room \in DOMAIN gm_active_games' :
        /\ gm_active_games'[room].left_player = m.player1_channel
        /\ gm_active_games'[room].right_player = m.player2_channel
        /\ gm_active_games'[room].target_rounds = rounds
        /\ \/ \E l \in launching' : l.room = room /\ l.tournament = tid
           \/ gm_active_games'[room].is_running

\* C30: whenever a bracket node becomes the active match (at the start, after
\* a recorded result, after a forfeit), a Match is created with the
\* tournament's rounds, the node's first slot is attached LEFT and its second
\* RIGHT, and the Match is started with start_game (is_tournament = true) to
\* both players; a tournament never rests with an active node for which no
\* Match was launched.
C30_ActiveNodeLaunched ==
    [][\A tid \in TIds : \A k \in 1..7 :
          BecomesActive(tid, k)
          => MatchLaunched(tid, active_tournaments'[tid].matches[k],
                           active_tournaments'[tid].rounds)]_vars
\* node m has both slots filled and no winner
Playable(m) ==
    /\ m.player1 # 0 /\ m.player2 # 0
    /\ m.player1_channel # 0 /\ m.player2_channel # 0
    /\ m.winner = 0

\* node k of bracket T is the earliest playable node: it is playable and no
\* playable node has a strictly lower round
EarliestPlayable(T, k) ==
    /\ Playable(T.matches[k])
    /\ \A j \in 1..Len(T.matches) :
          Playable(T.matches[j]) => T.matches[j].round >= T.matches[k].round

C32_ServeTowardConceder ==
    [][\A room \in DOMAIN gm_active_games \cap DOMAIN gm_active_games' :
          /\ gm_active_games'[room].right_score > gm_active_games[room].right_score
             => gm_active_games'[room].ball_vx < 0
          /\ gm_active_games'[room].left_score > gm_active_games[room].left_score
             => gm_active_games'[room].ball_vx > 0]_vars

\* the occupant of a side of a Match
SlotOf(g, side) == IF side = "left" THEN g.left_player ELSE g.right_player

\* a slot is available to attach(room, c, side): the requested side is free (or
\* already held by c), or, with no side requested, some side is free
Available(room, c, side) ==
    /\ room \in DOMAIN gm_active_games
    /\ IF side = "none"
       THEN \/ gm_active_games[room].left_player = 0
            \/ gm_active_games[room].right_player = 0
       ELSE SlotOf(gm_active_games[room], side) \in {0, c}

\* the side attach(room, c, side) is to assign
Assigned(room, side) ==
    IF side # "none" THEN side
    ELSE IF gm_active_games[room].left_player = 0 THEN "left" ELSE "right"

\* C33: attach(room, connection, side) places the connection on the requested
\* side, or on the first free side (LEFT before RIGHT) when none is requested,
\* and returns that side; when the room does not exist or no slot is available
\* for the request it returns NONE and changes no slot and no index entry.
C33_Attach ==
    [][\A room \in ManagerRooms : \A c \in ManagerConns : \A side \in AttachSides :
          ManagerAttach(room, c, side) =>
             LET a == gm_add_player_to_game(gm_active_games, gm_player_games,
                                            room, c, side)
             IN IF Available(room, c, side)
                THEN /\ a.side = Assigned(room, side)
                     /\ gm_active_games' =
                           [gm_active_games EXCEPT ![room] =
                               IF a.side = "left"
                               THEN [@ EXCEPT !.left_player = c]
                               ELSE [@ EXCEPT !.right_player = c]]
                     /\ gm_player_games' = Put(gm_player_games, c, room)
                ELSE /\ a.side = "none"
                     /\ UNCHANGED <<gm_active_games, gm_player_games>>]_vars

\* connection c has a Match: its index entry names a registered room in which
\* it holds a slot
HasMatch(c) ==
    /\ Get(gm_player_games, c) \in DOMAIN gm_active_games
    /\ c \in {gm_active_games[Get(gm_player_games, c)].left_player,
              gm_active_games[Get(gm_player_games, c)].right_player}

\* Match g with every slot held by c emptied
Vacated(g, c) ==
    [g EXCEPT !.left_player = IF @ = c THEN 0 ELSE @,
              !.right_player = IF @ = c THEN 0 ELSE @]

\* C34: detach(connection) empties exactly the slot held by that connection and
\* removes its connection-to-room entry, leaving the other slot, the scores and
\* the other matches unchanged; the match is stopped and removed from the
\* registry iff both of its slots are then empty; detach of a connection with
\* no match changes nothing.
C34_Detach ==
    [][\A c \in ManagerConns :
          ManagerDetach(c) =>
             IF HasMatch(c)
             THEN LET room == Get(gm_player_games, c)
                      g == Vacated(gm_active_games[room], c)
                  IN /\ gm_player_games' = Del(gm_player_games, c)
                     /\ gm_active_games' =
                           IF g.left_player = 0 /\ g.right_player = 0
                           THEN Del(gm_active_games, room)
                           ELSE [gm_active_games EXCEPT ![room] = g]
             ELSE UNCHANGED <<gm_active_games, gm_player_games>>]_vars

\* the bracket slots <<node, slot>> that hold channel ch
BracketSlots(matches, ch) ==
    {<<k, 1>> : k \in {i \in 1..Len(matches) : matches[i].player1_channel = ch}}
    \cup {<<k, 2>> : k \in {i \in 1..Len(matches) : matches[i].player2_channel = ch}}

\* the bracket of T as it is to be right after a start
SoundBracket(T) ==
    LET rounds == CeilLog2(Len(T.players))
        m == T.matches
    IN /\ {m[k].round : k \in 1..Len(m)} = 0..(rounds - 1)
       /\ \A i \in 1..Len(T.players) :
             /\ Cardinality(BracketSlots(m, T.players[i].channel)) = 1
             /\ \A sl \in BracketSlots(m, T.players[i].channel) :
                   T.players[i].nickname =
                      IF sl[2] = 1 THEN m[sl[1]].player1 ELSE m[sl[1]].player2
       /\ \A k \in 1..Len(m) :
             /\ m[k].player1_channel \in EntrantChannels(T) \cup {0}
             /\ m[k].player2_channel \in EntrantChannels(T) \cup {0}
             /\ m[k].player1 \in EntrantNicknames(T) \cup {0}
             /\ m[k].player2 \in EntrantNicknames(T) \cup {0}
             /\ m[k].round < rounds - 1 =>
                   /\ m[k].next_match # <<>>
                   /\ m[k].next_match[1] = m[k].round + 1
                   /\ FindMatch(m, m[k].next_match[1], m[k].next_match[2]) # 0

\* C35: immediately after a successful start of a tournament with n in {4,6,8}
\* entrants, the bracket has ceil(log2 n) rounds, every registered entrant
\* occupies exactly one bracket slot, no slot holds anyone who is not an
\* entrant, and every node other than the root has a next pointer to an
\* existing node of the following round.
C35_BracketShape ==
    [][\A tid \in TIds :
          (BecomesStarted(tid) /\ Len(active_tournaments[tid].players) \in {4, 6, 8})
          => SoundBracket(active_tournaments'[tid])]_vars

C35_Witness ==
    \E tid \in DOMAIN active_tournaments :
       /\ active_tournaments[tid].started
       /\ Len(active_tournaments[tid].players) = 6
       /\ Len(active_tournaments[tid].matches) = 7
       /\ SoundBracket(active_tournaments[tid])
       /\ \E k \in 1..7 : /\ active_tournaments[tid].matches[k].round = 1
                          /\ active_tournaments[tid].matches[k].player1_channel # 0
                          /\ active_tournaments[tid].matches[k].player2_channel # 0

\* connection c occupies a slot of the registered room r
Occupies(c, r) ==
    /\ r \in DOMAIN gm_active_games
    /\ c \in {gm_active_games[r].left_player, gm_active_games[r].right_player}

\* C36: Game Manager index consistency: in every reachable state, after any
\* sequence of create, attach, detach, start, game-over and delayed disposal,
\* the connection-to-room map has an entry c -> r if and only if room r is
\* registered and c occupies one of its slots (no attach evicts an occupant,
\* no disposal leaves a dangling entry).
C36_IndexConsistent ==
    \A c \in Conns : \A r \in Rooms :
       (c \in DOMAIN gm_player_games /\ gm_player_games[c] = r) <=> Occupies(c, r)

\* the index never names a room that is gone or a slot that is not held
C36_NoDanglingEntry ==
    \A c \in DOMAIN gm_player_games : Occupies(c, gm_player_games[c])

\* the registered tournaments in which connection c is an entrant
TournamentsOf(c) ==
    {tid \in DOMAIN active_tournaments : c \in EntrantChannels(active_tournaments[tid])}

\* C37: tournament membership consistency: in every reachable state each
\* connection is an entrant of at most one registered tournament, and the
\* connection-to-tournament index maps c to t if and only if t is registered
\* and c is in t's entrant list, after any sequence of create_tournament,
\* join_tournament, leave_tournament and disconnect.
C37_MembershipConsistent ==
    \A c \in Conns :
       /\ Cardinality(TournamentsOf(c)) <= 1
       /\ \A tid \in TIds :
             (c \in DOMAIN tournament_players /\ tournament_players[c] = tid)
             <=> tid \in TournamentsOf(c)

\* the ACTIVE node of T, still to be played, seats registered entrants only
ActiveSeatsEntrants(T) ==
    (T.started /\ T.current_match # 0 /\ T.matches[T.current_match].winner = 0)
    => /\ T.matches[T.current_match].player1_channel \in EntrantChannels(T)
       /\ T.matches[T.current_match].player2_channel \in EntrantChannels(T)

\* C38: in every reachable state of a started tournament both slots of the
\* ACTIVE node refer to connections that are still registered entrants: a
\* player who left or disconnected while not in the ACTIVE match is never later
\* scheduled into an ACTIVE match and is never recorded as the winner of a node.
C38_ActiveSeatsEntrants ==
    [][\A tid \in DOMAIN active_tournaments \cap DOMAIN active_tournaments' :
          /\ ActiveSeatsEntrants(active_tournaments'[tid])
          /\ \A k \in 1..Len(active_tournaments'[tid].matches) :
                (/\ k \in 1..Len(active_tournaments[tid].matches)
                 /\ active_tournaments[tid].matches[k].winner = 0
                 /\ active_tournaments'[tid].matches[k].winner # 0)
                => active_tournaments'[tid].matches[k].winner
                      \in EntrantNicknames(active_tournaments'[tid])]_vars

\* the score of side w in Match g
ScoreOf(g, w) == IF w = "left" THEN g.left_score ELSE g.right_score

\* the side opposite to w
Opponent(w) == IF w = "left" THEN "right" ELSE "left"

\* C39: for every positive target_rounds, in every reachable state of a Match:
\* while no winner is set both scores are below ceil(target_rounds / 2); when a
\* winner is set it is the side whose score was incremented in that tick, its
\* score equals ceil(target_rounds / 2), and the other side's score is strictly
\* below that threshold.
C39_WinnerAtThreshold ==
    [][\A room \in DOMAIN gm_active_games \cap DOMAIN gm_active_games' :
          LET g == gm_active_games[room]
              h == gm_active_games'[room]
          IN /\ h.winner = "none" =>
                   /\ h.left_score < CeilHalf(h.target_rounds)
                   /\ h.right_score < CeilHalf(h.target_rounds)
             /\ h.winner # "none" =>
                   /\ ScoreOf(h, h.winner) = CeilHalf(h.target_rounds)
                   /\ ScoreOf(h, Opponent(h.winner)) < CeilHalf(h.target_rounds)
             /\ (g.winner = "none" /\ h.winner # "none") =>
                   /\ ScoreOf(h, h.winner) = ScoreOf(g, h.winner) + 1
                   /\ ScoreOf(h, Opponent(h.winner)) = ScoreOf(g, Opponent(h.winner))]_vars

\* a Match of 4 rounds has ended 2 to 1 for LEFT
C39_Witness ==
    \E room \in DOMAIN gm_active_games :
        /\ gm_active_games[room].target_rounds = 4
        /\ gm_active_games[room].winner = "left"
        /\ gm_active_games[room].left_score = 2
        /\ gm_active_games[room].right_score = 1

\* the match locks thread t holds
HeldGameLocks(t) == {r \in Rooms : game_locks[r] = t}

\* the thread that holds the lock t is waiting for; NoThread if t waits for
\* nothing or the lock is free
Holder(t) ==
    IF pc[t].at = "manager" THEN manager_lock
    ELSE IF pc[t].at = "game" THEN game_locks[pc[t].room]
    ELSE NoThread

\* some threads wait for locks held within their own group
Deadlocked ==
    \E W \in (SUBSET Threads) \ {{}} :
       \A t \in W : Holder(t) # NoThread /\ Holder(t) \in W

\* C40: deadlock freedom: the Game Manager lock and the per-match lock are always
\* acquired in the order manager then match (no thread, the simulation worker
\* included, waits for the manager lock while it holds a match lock), and no
\* interleaving of the connection handlers, the simulation worker and the
\* delayed cleanup thread reaches a state in which threads block one another.
C40_DeadlockFree ==
    /\ \A t \in Threads : pc[t].at = "manager" => HeldGameLocks(t) = {}
    /\ \A t \in Threads : HeldGameLocks(t) # {} /\ manager_lock = t
                            => t \in HandlerThreads
    /\ ~Deadlocked

\* a handler inside the manager's block waits for the match lock the worker
\* holds, while the cleanup thread waits for the manager lock
C40_Witness ==
    \E h \in HandlerThreads : \E r \in Rooms :
       /\ manager_lock = h
       /\ pc[h].at = "game"
       /\ pc[h].room = r
       /\ game_locks[r] = WorkerThread(r)
       /\ pc[CleanupThread(r)].at = "manager"
====
